---- MODULE Spec2Model ----
(***************************************************************************)
(* The wavelet (high-pass) mipmap pipeline of nvcompress:                  *)
(*   main (compress.cpp) -> high_pass -> HighPass::decompose               *)
(*                                    -> HighPass::reconstruct             *)
(*                                    -> HighPass::get_image_mips -> sink  *)
(*                                                                         *)
(* Floats are modelled as exact fixed-point numbers.  A float v of a       *)
(* colour channel is the integer v * 255 * P; in Normal mode the three     *)
(* colour channels hold v * 127 * P instead (the loader divides by 127).   *)
(* The four channels are never mixed before the emitter, so a per-channel  *)
(* unit is sound.  All halvings below are exact for the widths modelled.   *)
(***************************************************************************)
EXTENDS Integers, Sequences, FiniteSets, TLC

\* ------------------------------------------------------------------ bounds
\* Largest log2 of an image width that is decomposed in full.
MaxLevels == 2
\* Largest "-high_pass <skip>" value tried.
MaxSkip == 2

\* ------------------------------------------------------- number encoding
\* Fixed-point resolution: 21 fractional bits below one 8-bit step.
P == 2^21

\* The value 1.0f of channel c.
UnitOf(normal, c) == IF normal /\ c < 3 THEN 127 * P ELSE 255 * P

\* Content of a float that malloc returned and nothing wrote yet.
Uninit == 0 - 2^30

Half(x) == x \div 2


\* 1 << i
Shl1(i) == 2^i

\* powf(b / 255, 2.2f) for every byte b, in units of 1/(255 * P), rounded to
\* a multiple of 2^12 so that the pyramid's halvings stay exact.
Pow22Tab ==
  <<
     0, 4096, 12288, 28672, 57344, 94208, 139264, 196608,
     262144, 339968, 430080, 532480, 643072, 765952, 901120, 1048576,
     1208320, 1384448, 1568768, 1765376, 1978368, 2199552, 2437120, 2686976,
     2953216, 3231744, 3522560, 3825664, 4145152, 4476928, 4825088, 5185536,
     5562368, 5951488, 6352896, 6770688, 7204864, 7651328, 8114176, 8593408,
     9084928, 9592832, 10113024, 10649600, 11202560, 11771904, 12353536, 12955648,
     13565952, 14196736, 14843904, 15503360, 16179200, 16871424, 17580032, 18305024,
     19046400, 19800064, 20574208, 21364736, 22167552, 22986752, 23826432, 24678400,
     25550848, 26435584, 27336704, 28258304, 29196288, 30146560, 31117312, 32104448,
     33107968, 34127872, 35164160, 36216832, 37289984, 38375424, 39481344, 40603648,
     41742336, 42897408, 44072960, 45264896, 46473216, 47697920, 48943104, 50200576,
     51482624, 52776960, 54091776, 55418880, 56770560, 58134528, 59518976, 60923904,
     62341120, 63778816, 65232896, 66707456, 68198400, 69709824, 71237632, 72781824,
     74346496, 75927552, 77529088, 79147008, 80781312, 82436096, 84111360, 85803008,
     87511040, 89239552, 90984448, 92749824, 94535680, 96337920, 98156544, 99995648,
     101855232, 103731200, 105627648, 107540480, 109473792, 111423488, 113397760, 115384320,
     117391360, 119418880, 121466880, 123531264, 125616128, 127717376, 129839104, 131981312,
     134144000, 136323072, 138522624, 140738560, 142974976, 145231872, 147509248, 149803008,
     152117248, 154451968, 156803072, 159178752, 161570816, 163979264, 166412288, 168861696,
     171331584, 173821952, 176328704, 178860032, 181407744, 183975936, 186564608, 189169664,
     191799296, 194445312, 197111808, 199798784, 202506240, 205234176, 207978496, 210743296,
     213532672, 216338432, 219164672, 222011392, 224878592, 227762176, 230670336, 233594880,
     236544000, 239509504, 242495488, 245501952, 248532992, 251580416, 254648320, 257736704,
     260845568, 263974912, 267120640, 270290944, 273481728, 276692992, 279924736, 283176960,
     286445568, 289738752, 293052416, 296386560, 299741184, 303116288, 306511872, 309927936,
     313364480, 316821504, 320299008, 323796992, 327315456, 330858496, 334417920, 337997824,
     341602304, 345227264, 348868608, 352534528, 356220928, 359927808, 363655168, 367407104,
     371175424, 374968320, 378777600, 382611456, 386465792, 390340608, 394235904, 398155776,
     402092032, 406052864, 410034176, 414035968, 418058240, 422105088, 426168320, 430256128,
     434364416, 438493184, 442646528, 446820352, 451010560, 455225344, 459464704, 463720448,
     468000768, 472301568, 476622848, 480968704, 485330944, 489717760, 494129152, 498556928,
     503009280, 507482112, 511975424, 516493312, 521031680, 525590528, 530169856, 534773760
  >>

\* The thresholds of powf(v, 1 / 2.2f): entry j is the least v, in units of
\* 1/(255 * P), whose root reaches j quarters of an 8-bit step.
InvGammaTab ==
  <<
     129, 591, 1442, 2716, 4436, 6625, 9300, 12476,
     16166, 20383, 25138, 30441, 36302, 42730, 49734, 57321,
     65500, 74277, 83659, 93652, 104264, 115500, 127366, 139867,
     153010, 166799, 181239, 196335, 212093, 228516, 245610, 263379,
     281826, 300957, 320775, 341284, 362488, 384392, 406998, 430311,
     454333, 479070, 504523, 530696, 557593, 585218, 613572, 642659,
     672483, 703046, 734352, 766403, 799203, 832753, 867057, 902119,
     937939, 974522, 1011869, 1049984, 1088869, 1128526, 1168959, 1210168,
     1252158, 1294931, 1338488, 1382832, 1427966, 1473892, 1520611, 1568127,
     1616442, 1665557, 1715476, 1766199, 1817730, 1870070, 1923222, 1977187,
     2031968, 2087566, 2143984, 2201224, 2259287, 2318176, 2377892, 2438438,
     2499815, 2562025, 2625070, 2688952, 2753672, 2819234, 2885637, 2952885,
     3020978, 3089919, 3159710, 3230351, 3301846, 3374195, 3447400, 3521463,
     3596385, 3672169, 3748816, 3826327, 3904704, 3983948, 4064062, 4145047,
     4226904, 4309634, 4393241, 4477724, 4563086, 4649328, 4736451, 4824458,
     4913349, 5003125, 5093790, 5185343, 5277786, 5371121, 5465349, 5560472,
     5656491, 5753407, 5851222, 5949937, 6049554, 6150073, 6251497, 6353826,
     6457063, 6561207, 6666261, 6772226, 6879103, 6986893, 7095598, 7205220,
     7315758, 7427215, 7539593, 7652891, 7767111, 7882256, 7998325, 8115320,
     8233242, 8352093, 8471874, 8592585, 8714229, 8836806, 8960318, 9084765,
     9210149, 9336471, 9463733, 9591934, 9721078, 9851164, 9982193, 10114168,
     10247088, 10380956, 10515772, 10651538, 10788254, 10925922, 11064542, 11204116,
     11344645, 11486130, 11628572, 11771973, 11916332, 12061652, 12207933, 12355176,
     12503383, 12652554, 12802691, 12953794, 13105865, 13258905, 13412914, 13567894,
     13723845, 13880769, 14038667, 14197539, 14357388, 14518212, 14680015, 14842796,
     15006557, 15171298, 15337021, 15503726, 15671415, 15840089, 16009748, 16180393,
     16352025, 16524646, 16698256, 16872857, 17048448, 17225032, 17402608, 17581178,
     17760743, 17941304, 18122862, 18305417, 18488970, 18673523, 18859076, 19045631,
     19233187, 19421747, 19611310, 19801878, 19993452, 20186032, 20379620, 20574216,
     20769821, 20966436, 21164062, 21362699, 21562350, 21763013, 21964691, 22167384,
     22371094, 22575820, 22781563, 22988326, 23196107, 23404909, 23614732, 23825577,
     24037444, 24250335, 24464250, 24679190, 24895157, 25112150, 25330171, 25549220,
     25769298, 25990407, 26212546, 26435716, 26659920, 26885156, 27111426, 27338731,
     27567072, 27796449, 28026863, 28258315, 28490806, 28724336, 28958907, 29194518,
     29431171, 29668867, 29907606, 30147389, 30388216, 30630090, 30873009, 31116976,
     31361991, 31608054, 31855166, 32103329, 32352542, 32602807, 32854124, 33106494,
     33359918, 33614396, 33869930, 34126519, 34384165, 34642868, 34902630, 35163450,
     35425330, 35688270, 35952271, 36217334, 36483459, 36750647, 37018899, 37288216,
     37558597, 37830045, 38102559, 38376140, 38650790, 38926508, 39203295, 39481153,
     39760081, 40040081, 40321152, 40603297, 40886515, 41170807, 41456174, 41742617,
     42030135, 42318731, 42608404, 42899155, 43190985, 43483895, 43777885, 44072955,
     44369107, 44666342, 44964659, 45264059, 45564544, 45866114, 46168769, 46472510,
     46777337, 47083253, 47390256, 47698348, 48007529, 48317800, 48629161, 48941614,
     49255159, 49569796, 49885527, 50202351, 50520269, 50839283, 51159392, 51480597,
     51802899, 52126299, 52450797, 52776394, 53103090, 53430886, 53759782, 54089780,
     54420880, 54753082, 55086387, 55420796, 55756309, 56092927, 56430651, 56769480,
     57109416, 57450460, 57792611, 58135871, 58480240, 58825718, 59172307, 59520007,
     59868818, 60218741, 60569777, 60921926, 61275189, 61629567, 61985059, 62341667,
     62699391, 63058231, 63418189, 63779265, 64141459, 64504773, 64869206, 65234759,
     65601433, 65969228, 66338145, 66708185, 67079348, 67451634, 67825044, 68199579,
     68575240, 68952026, 69329939, 69708978, 70089146, 70470441, 70852865, 71236418,
     71621101, 72006914, 72393858, 72781934, 73171141, 73561481, 73952954, 74345561,
     74739302, 75134177, 75530188, 75927334, 76325617, 76725037, 77125594, 77527289,
     77930123, 78334095, 78739207, 79145460, 79552853, 79961387, 80371062, 80781880,
     81193841, 81606945, 82021193, 82436585, 82853122, 83270804, 83689632, 84109607,
     84530728, 84952997, 85376414, 85800980, 86226695, 86653559, 87081573, 87510738,
     87941054, 88372521, 88805141, 89238913, 89673838, 90109917, 90547150, 90985538,
     91425081, 91865780, 92307635, 92750646, 93194815, 93640141, 94086626, 94534269,
     94983072, 95433034, 95884156, 96336439, 96789884, 97244490, 97700258, 98157189,
     98615283, 99074540, 99534962, 99996548, 100459300, 100923217, 101388300, 101854550,
     102321967, 102790552, 103260304, 103731226, 104203316, 104676575, 105151005, 105626605,
     106103376, 106581319, 107060433, 107540720, 108022180, 108504813, 108988619, 109473600,
     109959756, 110447087, 110935594, 111425277, 111916137, 112408174, 112901388, 113395780,
     113891351, 114388101, 114886030, 115385140, 115885429, 116386900, 116889552, 117393386,
     117898401, 118404600, 118911982, 119420547, 119930297, 120441231, 120953350, 121466654,
     121981145, 122496821, 123013685, 123531736, 124050975, 124571401, 125093017, 125615821,
     126139816, 126665000, 127191374, 127718940, 128247696, 128777645, 129308786, 129841119,
     130374646, 130909366, 131445280, 131982389, 132520692, 133060191, 133600886, 134142777,
     134685864, 135230149, 135775631, 136322312, 136870190, 137419268, 137969545, 138521021,
     139073698, 139627575, 140182653, 140738933, 141296415, 141855099, 142414986, 142976076,
     143538369, 144101867, 144666569, 145232476, 145799588, 146367907, 146937431, 147508162,
     148080100, 148653245, 149227599, 149803161, 150379931, 150957911, 151537100, 152117499,
     152699109, 153281929, 153865961, 154451204, 155037660, 155625328, 156214209, 156804303,
     157395611, 157988133, 158581870, 159176822, 159772990, 160370373, 160968972, 161568788,
     162169821, 162772072, 163375541, 163980227, 164586133, 165193258, 165801602, 166411166,
     167021951, 167633956, 168247182, 168861630, 169477300, 170094193, 170712308, 171331646,
     171952208, 172573994, 173197004, 173821239, 174446699, 175073385, 175701297, 176330435,
     176960800, 177592392, 178225212, 178859260, 179494536, 180131041, 180768775, 181407739,
     182047932, 182689356, 183332011, 183975897, 184621014, 185267364, 185914945, 186563760,
     187213807, 187865088, 188517603, 189171352, 189826335, 190482554, 191140008, 191798698,
     192458625, 193119787, 193782187, 194445824, 195110699, 195776812, 196444163, 197112754,
     197782584, 198453653, 199125962, 199799512, 200474303, 201150334, 201827608, 202506123,
     203185881, 203866881, 204549124, 205232611, 205917342, 206603317, 207290536, 207979001,
     208668710, 209359666, 210051868, 210745316, 211440010, 212135953, 212833142, 213531580,
     214231266, 214932200, 215634384, 216337817, 217042500, 217748433, 218455617, 219164052,
     219873737, 220584675, 221296865, 222010306, 222725001, 223440949, 224158150, 224876605,
     225596315, 226317279, 227039497, 227762972, 228487701, 229213687, 229940929, 230669428,
     231399185, 232130198, 232862470, 233595999, 234330787, 235066835, 235804141, 236542707,
     237282533, 238023619, 238765966, 239509575, 240254444, 241000575, 241747969, 242496625,
     243246544, 243997726, 244750171, 245503881, 246258854, 247015093, 247772596, 248531365,
     249291399, 250052699, 250815266, 251579099, 252344200, 253110568, 253878203, 254647107,
     255417279, 256188720, 256961431, 257735410, 258510660, 259287180, 260064970, 260844032,
     261624364, 262405968, 263188844, 263972992, 264758413, 265545107, 266333075, 267122315,
     267912830, 268704619, 269497683, 270292022, 271087637, 271884527, 272682693, 273482135,
     274282854, 275084850, 275888124, 276692675, 277498505, 278305612, 279113999, 279923665,
     280734610, 281546835, 282360340, 283175125, 283991191, 284808539, 285627167, 286447078,
     287268271, 288090746, 288914504, 289739544, 290565869, 291393477, 292222369, 293052546,
     293884008, 294716754, 295550786, 296386104, 297222708, 298060598, 298899775, 299740240,
     300581991, 301425030, 302269358, 303114974, 303961878, 304810072, 305659555, 306510327,
     307362390, 308215743, 309070387, 309926321, 310783547, 311642065, 312501874, 313362976,
     314225371, 315089058, 315954039, 316820314, 317687882, 318556744, 319426901, 320298353,
     321171100, 322045143, 322920482, 323797116, 324675047, 325554275, 326434800, 327316623,
     328199743, 329084161, 329969878, 330856893, 331745208, 332634821, 333525735, 334417948,
     335311462, 336206276, 337102391, 337999808, 338898526, 339798545, 340699867, 341602492,
     342506419, 343411649, 344318183, 345226021, 346135162, 347045608, 347957359, 348870415,
     349784776, 350700442, 351617415, 352535693, 353455279, 354376171, 355298370, 356221876,
     357146691, 358072814, 359000244, 359928984, 360859033, 361790391, 362723058, 363657036,
     364592323, 365528922, 366466831, 367406051, 368346583, 369288426, 370231582, 371176050,
     372121830, 373068924, 374017331, 374967051, 375918086, 376870434, 377824097, 378779075,
     379735368, 380692976, 381651900, 382612140, 383573696, 384536569, 385500759, 386466266,
     387433090, 388401232, 389370693, 390341472, 391313569, 392286985, 393261721, 394237777,
     395215152, 396193847, 397173863, 398155200, 399137857, 400121836, 401107137, 402093760,
     403081705, 404070972, 405061563, 406053476, 407046713, 408041274, 409037158, 410034367,
     411032901, 412032760, 413033943, 414036452, 415040287, 416045448, 417051936, 418059750,
     419068891, 420079359, 421091155, 422104278, 423118730, 424134510, 425151619, 426170057,
     427189824, 428210920, 429233346, 430257103, 431282190, 432308608, 433336356, 434365436,
     435395848, 436427591, 437460666, 438495074, 439530815, 440567888, 441606295, 442646036,
     443687110, 444729519, 445773262, 446818339, 447864752, 448912500, 449961583, 451012002,
     452063758, 453116850, 454171278, 455227044, 456284146, 457342587, 458402365, 459463481,
     460525935, 461589729, 462654861, 463721332, 464789143, 465858294, 466928785, 468000616,
     469073788, 470148300, 471224154, 472301350, 473379887, 474459766, 475540987, 476623551,
     477707458, 478792708, 479879301, 480967238, 482056519, 483147144, 484239114, 485332429,
     486427088, 487523093, 488620444, 489719140, 490819183, 491920572, 493023308, 494127391,
     495232821, 496339598, 497447724, 498557197, 499668019, 500780189, 501893709, 503008577,
     504124795, 505242363, 506361281, 507481549, 508603167, 509726136, 510850457, 511976128,
     513103152, 514231527, 515361254, 516492334, 517624767, 518758552, 519893691, 521030183,
     522168029, 523307229, 524447783, 525589692, 526732956, 527877575, 529023549, 530170879,
     531319565, 532469607, 533621005, 534773760
  >>

\* ------------------------------------------------------------- the input
\* Pixels the test images are painted with (4 bytes each, in memory order).
Palette ==
  << <<255, 255, 255, 255>>,
     <<0, 0, 0, 255>>,
     <<127, 127, 255, 0>>,
     <<10, 200, 77, 255>> >>

Patterns == {"flat", "checker", "corner"}

\* Byte c of the pixel at column x, row y of image img.
Pixel(img, x, y, c) ==
  LET second == CASE img.pat = "flat"    -> FALSE
                  [] img.pat = "checker" -> (x + y) % 2 = 1
                  [] img.pat = "corner"  -> x = 0 /\ y = 0
  IN  Palette[IF second THEN img.c1 ELSE img.c0][c + 1]

Widths == (0 .. 2^MaxLevels) \cup {640}

\* A loaded nv::Image: any width and height, square or not.
Heights(w) == {w} \cup (IF w <= 2 THEN {w \div 2, 2 * w} ELSE {})

Images ==
  { img \in [w : Widths, h : (0 .. 2 * 2^MaxLevels) \cup {320, 640}, pat : Patterns,
             c0 : 1 .. Len(Palette), c1 : 1 .. Len(Palette)] :
      /\ img.h \in Heights(img.w)
      /\ IF img.pat = "flat" THEN img.c0 = img.c1 ELSE img.c0 < img.c1 }

\* "-high_pass <skip>": strtol reads a signed count, so "-1" is accepted too.
Skips == (0 - 1) .. MaxSkip

\* ------------------------------------------------------------ load_row
\* load_row<3, SRGB, NORM>: the NB < 4 branch, alpha set to 1.0f.
load_rowMut(byte, c, srgb, norm) ==
  IF c = 3 THEN 255 * P
  ELSE IF norm THEN (byte - 127) * P
  ELSE IF srgb THEN Pow22Tab[byte + 1]
  ELSE byte * P

\* load_row<4, SRGB, NORM>: one byte of one sample to its float.
load_row(byte, c, srgb, norm) ==
  IF c = 3 THEN byte * P                      \* NB = 4: float(byte) * C
  ELSE IF norm THEN (byte - 127) * P           \* float(byte - 127) * CH
  ELSE IF srgb THEN Pow22Tab[byte + 1]         \* powf(a, 2.2f)
  ELSE byte * P                                \* a *= 1 / 255.0f

\* ------------------------------------------------------ decompose_rows
\* decompose_rows reading the lower pair of texels from the upper row.
decompose_rowsMut(S, rgb1, rgb2, m, k) ==
  LET i   == 8 * m + k
      a   == S[rgb1 + i]
      b   == S[rgb1 + i + 4]
      c   == S[rgb1 + i]
      d   == S[rgb1 + i + 4]
      sa  == Half(a + b)
      db  == a - b
      sc  == Half(c + d)
      dd  == c - d
  IN  [sac |-> Half(sa + sc), dac |-> sa - sc,
       sbd |-> Half(db + dd), dbd |-> db - dd]

\* One channel k of one 2x2 block m of the row pair (rgb1, rgb2) of S.
decompose_rows(S, rgb1, rgb2, m, k) ==
  LET i   == 8 * m + k
      a   == S[rgb1 + i]
      b   == S[rgb1 + i + 4]
      c   == S[rgb2 + i]
      d   == S[rgb2 + i + 4]
      sa  == Half(a + b)
      db  == a - b
      sc  == Half(c + d)
      dd  == c - d
  IN  [sac |-> Half(sa + sc), dac |-> sa - sc,
       sbd |-> Half(db + dd), dbd |-> db - dd]

\* The triple written as (sbd, dac, dbd).
BandMut(r, t) == CASE t = 0 -> r.sbd [] t = 1 -> r.dac [] t = 2 -> r.dbd

\* Which detail band lands at offset t (0..2) of a channel's triple.
Band(r, t) == CASE t = 0 -> r.dac [] t = 1 -> r.sbd [] t = 2 -> r.dbd

RECURSIVE int_low_pow2(_)
int_low_pow2(x) == IF x < 2 THEN 0 ELSE 1 + int_low_pow2(x \div 2)

\* len & (len - 1) in unsigned 32-bit arithmetic.
RECURSIVE BitAnd(_, _)
BitAnd(a, b) ==
  IF a = 0 \/ b = 0 THEN 0
  ELSE (a % 2) * (b % 2) + 2 * BitAnd(a \div 2, b \div 2)

\* For len = 0, len - 1 wraps to 0xFFFFFFFF and 0 & 0xFFFFFFFF = 0.
LenAndPred(len) == IF len = 0 THEN 0 ELSE BitAnd(len, len - 1)

\* The division of _count rounding up.
CountOfMut(len) == (4 * len * len * 4 + 2) \div 3

\* _count = (4 * len * len * 4) / 3
CountOf(len) == (4 * len * len * 4) \div 3

\* malloc((4 * len * len) / 4) bytes of gray, and (4 * len * len - 4) floats.
GraySize(len) == (4 * len * len) \div 4
WavSize(len) == 4 * len * len - 4

\* The rows loop of decompose loading the input: float idx of the tile.
\* Rows at or past the image's height lie outside the pixel buffer: what is
\* read there is whatever follows it, here the palette pixel g.
LoadTile(img, len, srgb, norm, g, idx) ==
  LET c == idx % 4
      x == (idx \div 4) % len
      y == (idx \div 4) \div len
      byte == IF y < img.h THEN Pixel(img, x, y, c) ELSE Palette[g][c + 1]
  IN  load_row(byte, c, srgb, norm)

\* One pass of the level loop of decompose: the level of width w, read at
\* pin with the given pitch, its averages written at ps, its details at pw.
DecomposeLevel(st, w) ==
  LET hw  == w \div 2
      row(rel, per) == rel \div (per * hw)
      blk(rel, per) == (rel % (per * hw)) \div per
      res(rel, per) ==
        LET j == row(rel, per)
        IN  decompose_rows(st.S, st.pin + 2 * st.pitch * j,
                           st.pin + 2 * st.pitch * j + st.pitch,
                           blk(rel, per), (rel % per) \div (per \div 4))
  IN  [S     |-> [idx \in DOMAIN st.S |->
                    IF idx >= st.ps /\ idx < st.ps + 4 * hw * hw
                    THEN res(idx - st.ps, 4).sac
                    ELSE st.S[idx]],
       D     |-> [idx \in DOMAIN st.D |->
                    IF idx >= st.pw /\ idx < st.pw + 12 * hw * hw
                    THEN Band(res(idx - st.pw, 12), (idx - st.pw) % 3)
                    ELSE st.D[idx]],
       pin   |-> st.ps,
       ps    |-> st.ps + 4 * hw * hw,
       pw    |-> st.pw + 12 * hw * hw,
       pitch |-> (4 * w) \div 2]

\* for (uint i = _levels + 1; i > 1; ) { --i; uint w = 1 << i; ... }
RECURSIVE DecomposeLoop(_, _)
DecomposeLoop(st, i) ==
  IF i > 1 THEN DecomposeLoop(DecomposeLevel(st, Shl1(i - 1)), i - 1) ELSE st

\* The top average truncated instead of rounded: uint(v * 255) / 255.f.
Align255Mut(v) == (v \div P) * P

\* uint(v * 255 + 0.5) / 255.f
Align255(v) == ((2 * v + P) \div (2 * P)) * P

\* The top average aligned in Normal mode too, instead of forced to (1, 0, 0).
TopValueMut(v, c, tonormal) ==
  IF c = 3 THEN v ELSE Align255(v)

\* The top-level average after "set avg" / "align the toplevel sum".
TopValue(v, c, tonormal) ==
  IF c = 3 THEN v
  ELSE IF tonormal THEN (IF c = 0 THEN UnitOf(TRUE, 0) ELSE 0)
  ELSE Align255(v)

\* decompose past its width test: the buffers it leaves behind.
DecomposeBuffers(img, len, srgb, tonormal, g) ==
  LET cnt  == CountOf(len)
      S0   == [idx \in 0 .. cnt - 1 |->
                 IF idx < 4 * len * len
                 THEN LoadTile(img, len, srgb, tonormal, g, idx) ELSE Uninit]
      D0   == [idx \in 0 .. WavSize(len) - 1 |-> Uninit]
      st   == DecomposeLoop([S |-> S0, D |-> D0, pin |-> 0, ps |-> 4 * len * len,
                             pw |-> 0, pitch |-> 4 * len],
                            int_low_pow2(len) + 1)
      top  == st.ps - 4
  IN  [S |-> [idx \in DOMAIN st.S |->
                IF idx >= top /\ idx < top + 3
                THEN TopValue(st.S[idx], idx - top, tonormal) ELSE st.S[idx]],
       D |-> st.D, top |-> top]

\* -------------------------------------------------------- compose_rows
\* compose_rows with the signs of the horizontal detail swapped.
compose_rowsMut(R, D, sums, diff, m, k, sh) ==
  LET sac == R[sums + 4 * m + k]
      pd  == diff + 12 * m + 3 * k
      dac == D[pd] \div 2^sh
      sbd == D[pd + 1] \div 2^sh
      dbd == D[pd + 2] \div 2^sh
      sa  == sac + Half(dac)
      sc  == sac - Half(dac)
      db  == sbd + Half(dbd)
      dd  == sbd - Half(dbd)
  IN  [a |-> sa - Half(db), b |-> sa + Half(db),
       c |-> sc - Half(dd), d |-> sc + Half(dd)]

\* One channel k of one 2x2 block m: the four texels composed from the
\* average at sums and the detail triple at diff, with cf = 2^(-sh).
compose_rows(R, D, sums, diff, m, k, sh) ==
  LET sac == R[sums + 4 * m + k]
      pd  == diff + 12 * m + 3 * k
      dac == D[pd] \div 2^sh
      sbd == D[pd + 1] \div 2^sh
      dbd == D[pd + 2] \div 2^sh
      sa  == sac + Half(dac)
      sc  == sac - Half(dac)
      db  == sbd + Half(dbd)
      dd  == sbd - Half(dbd)
  IN  [a |-> sa + Half(db), b |-> sa - Half(db),
       c |-> sc + Half(dd), d |-> sc - Half(dd)]

\* levsup without the "- 1": _levels - unfiltered - level.
LevSupMut(lv, level, unfiltered) == lv - unfiltered - level

\* int levsup = _levels - 1 - level - unfiltered
LevSup(lv, level, unfiltered) == lv - 1 - level - unfiltered

\* cf = i < levsup ? ldexpf(1.0f, i - levsup) : 1.0f, as the exponent of 1/2
CfShift(i, levsup) == IF i < levsup THEN levsup - i ELSE 0

\* One pass of the loop of reconstruct_level: level i + 1 composed from
\* level i of R.  st holds R and the running pointers pr and pd.
ComposeLevel(st, D, i, sh) ==
  LET w   == Shl1(i)
      s   == w * w
      ps  == st.pr
      pd  == st.pd - 4 * 3 * s
      pr  == st.pr - 4 * 4 * s
      texel(rel) ==
        LET fy  == rel \div (8 * w)
            fi  == rel % (8 * w)
            k   == fy \div 2
            r   == compose_rows(st.R, D, ps + 4 * w * k, pd + 4 * 3 * w * k,
                                fi \div 8, fi % 4, sh)
        IN  CASE fy % 2 = 0 /\ fi % 8 < 4  -> r.a
              [] fy % 2 = 0 /\ fi % 8 >= 4 -> r.b
              [] fy % 2 = 1 /\ fi % 8 < 4  -> r.c
              [] fy % 2 = 1 /\ fi % 8 >= 4 -> r.d
  IN  [R  |-> [idx \in DOMAIN st.R |->
                 IF idx >= pr /\ idx < pr + 16 * s THEN texel(idx - pr)
                 ELSE st.R[idx]],
       pr |-> pr, pd |-> pd]

RECURSIVE ComposeLoop(_, _, _, _, _)
ComposeLoop(st, D, i, level, levsup) ==
  IF i < level
  THEN ComposeLoop(ComposeLevel(st, D, i, CfShift(i, levsup)), D, i + 1, level, levsup)
  ELSE st

\* pr and pd of reconstruct_level when its loop reaches step i.
RECURSIVE PrAt(_, _)
PrAt(cnt, i) == IF i = 0 THEN cnt - 1 - 4 ELSE PrAt(cnt, i - 1) - 16 * Shl1(i - 1) * Shl1(i - 1)

RECURSIVE PdAt(_, _)
PdAt(wd, i) == IF i = 0 THEN 4 * wd * wd - 4 ELSE PdAt(wd, i - 1) - 12 * Shl1(i - 1) * Shl1(i - 1)

\* reconstruct_level continuing from the slab of S of the level before: one
\* composition step, its averages read from S.
reconstruct_levelMut(S, D, R, cnt, wd, lv, level, unfiltered) ==
  LET from   == IF level = 0 THEN 0 ELSE level - 1
      pr0    == PrAt(cnt, from)
      n0     == 4 * Shl1(from) * Shl1(from)
      seeded == [idx \in DOMAIN R |->
                   IF idx >= pr0 /\ idx < pr0 + n0 THEN S[idx] ELSE R[idx]]
      st     == ComposeLoop([R |-> seeded, pr |-> pr0, pd |-> PdAt(wd, from)],
                            D, from, level, LevSup(lv, level, unfiltered))
      offs   == st.pr
      n      == 4 * Shl1(level) * Shl1(level)
  IN  [R |-> st.R,
       S |-> [idx \in DOMAIN S |->
                IF idx >= offs /\ idx < offs + n THEN st.R[idx] ELSE S[idx]],
       offs |-> offs]

\* The memcpy into S taking four floats of the next coarser slab along.
CopySizeMut(level) ==
  IF level = 0 THEN 4 ELSE 4 * Shl1(level) * Shl1(level) + 4

\* The floats of the memcpy into S: 4 << level << level
CopySize(level) == 4 * Shl1(level) * Shl1(level)

\* reconstruct_level(level, unfiltered): the new R and S.
reconstruct_level(S, D, R, cnt, wd, lv, level, unfiltered) ==
  LET ps     == cnt - 1
      pr0    == cnt - 1 - 4
      seeded == [idx \in DOMAIN R |->
                   IF idx >= pr0 /\ idx < pr0 + 4 THEN S[ps - 4 + (idx - pr0)]
                   ELSE R[idx]]
      st     == ComposeLoop([R |-> seeded, pr |-> pr0, pd |-> 4 * wd * wd - 4],
                            D, 0, level, LevSup(lv, level, unfiltered))
      offs   == st.pr
      n      == CopySize(level)
  IN  [R |-> st.R,
       S |-> [idx \in DOMAIN S |->
                IF idx >= offs /\ idx < offs + n THEN st.R[idx] ELSE S[idx]],
       offs |-> offs]

\* ------------------------------------------------------ get_image_mips
\* saturate without its upper clamp.
saturateMut(v, unit) == IF v < 0 THEN 0 ELSE v

\* static float saturate(float v): v clamped to 0..1 (1.0f is unit).
saturate(v, unit) == IF v < 0 THEN 0 ELSE IF v > unit THEN unit ELSE v

\* Largest j in lo..hi with InvGammaTab[j] <= n (0 when there is none).
RECURSIVE GammaSearch(_, _, _)
GammaSearch(n, lo, hi) ==
  IF lo > hi THEN lo - 1
  ELSE LET mid == (lo + hi) \div 2
       IN  IF InvGammaTab[mid] <= n THEN GammaSearch(n, mid + 1, hi)
           ELSE GammaSearch(n, lo, mid - 1)

\* 255 * powf(saturate(v), 1 / 2.2f), in quarters of an 8-bit step.
InvGamma4(v) == GammaSearch(saturate(v, 255 * P), 1, Len(InvGammaTab))

\* const int K = 2047483673
K == 2047483673

\* (a * k) mod 2^32 for a = hi * 2^16 + lo and k < 2^15, as 16-bit halves.
U32Mul(a, k) ==
  LET lop == a.lo * k
      hip == a.hi * k
  IN  [hi |-> (hip + lop \div 65536) % 65536, lo |-> lop % 65536]

U32Inc(a) ==
  IF a.lo = 65535 THEN [hi |-> (a.hi + 1) % 65536, lo |-> 0]
  ELSE [hi |-> a.hi, lo |-> a.lo + 1]

\* int p = (K * k + 1) * k, with unsigned wraparound, read back as an int.
NoiseP(k) ==
  LET u == U32Mul(U32Inc(U32Mul([hi |-> K \div 65536, lo |-> K % 65536], k)), k)
  IN  (IF u.hi >= 32768 THEN u.hi - 65536 ELSE u.hi) * 65536 + u.lo

\* uint8_t(num / den): truncation; outside 0..255 the conversion is
\* undefined, and gives what the hardware's conversion gives (ubmode).
ToByte(num, den, ubmode) ==
  LET t == IF num >= 0 THEN num \div den ELSE 0 - ((0 - num) \div den)
  IN  IF t >= 0 /\ t <= 255 THEN t
      ELSE IF ubmode = "wrap" THEN t % 256
      ELSE IF t < 0 THEN 0 ELSE 255

ByteInRange(num, den) == num > 0 - den /\ num < 256 * den

\* 0.5f + 255 * sqrtf(blue2) * (127 / 255.f) for blue2 = 1 - nx^2 - ny^2,
\* nx and ny cut to 6 fractional bits of a 1/127 step.
BlueSteps(nx, ny) ==
  LET ax == (IF nx < 0 THEN 0 - nx ELSE nx) \div 2^15
      ay == (IF ny < 0 THEN 0 - ny ELSE ny) \div 2^15
  IN  IF ax > 127 * 64 \/ ay > 127 * 64 THEN 0
      ELSE Cardinality({m \in 1 .. 127 :
             (2 * m - 1) * (2 * m - 1) * 1024 + ax * ax + ay * ay <= 254 * 254 * 1024})

\* The three values 0.5f + 255 * fvec[c] of the pixel at S[ps..ps+3], each
\* as a fraction <<num, den>>; k is the pixel's byte offset in its level.
EmitFractions(S, ps, tosrgb, tonorm, toyuv, k) ==
  IF tonorm
  THEN << <<127 + BlueSteps(S[ps + 1], S[ps + 2]), 1>>,
          <<2 * saturate(S[ps + 1] + 127 * P, 255 * P) + P, 2 * P>>,
          <<2 * saturate(S[ps + 2] + 127 * P, 255 * P) + P, 2 * P>> >>
  ELSE IF tosrgb \/ toyuv
  THEN LET f0 == InvGamma4(S[ps])
           f1 == InvGamma4(S[ps + 1])
           f2 == InvGamma4(S[ps + 2])
       IN  IF toyuv
           THEN \* bgr_to_coycg(fvec, fvec): r = fvec[2], g = fvec[1], b = fvec[0]
                << <<62 + 15 * ((0 - f2) + 2 * f1 - f0 + 1020), 124>>,
                   <<2064384 + (f2 + 2 * f1 + f0) * 258048
                       + 255 * 8 * (NoiseP(k) \div 2^19), 4128768>>,
                   <<62 + 15 * (2 * (f2 - f0) + 1020), 124>> >>
           ELSE << <<f0 + 2, 4>>, <<f1 + 2, 4>>, <<f2 + 2, 4>> >>
  ELSE << <<2 * saturate(S[ps], 255 * P) + P, 2 * P>>,
          <<2 * saturate(S[ps + 1], 255 * P) + P, 2 * P>>,
          <<2 * saturate(S[ps + 2], 255 * P) + P, 2 * P>> >>

\* The alpha byte quantized from ps[3] like the colour bytes.
EmitByteMut(S, ps, tosrgb, tonorm, toyuv, k, c, ubmode) ==
  IF c = 3 THEN ToByte(2 * saturate(S[ps + 3], 255 * P) + P, 2 * P, ubmode)
  ELSE LET f == EmitFractions(S, ps, tosrgb, tonorm, toyuv, k)[c + 1]
       IN  ToByte(f[1], f[2], ubmode)

\* Byte c (0..3) of the pixel: *pw++ = uint8_t(0.5f + 255 * fvec[c]); 255.
EmitByte(S, ps, tosrgb, tonorm, toyuv, k, c, ubmode) ==
  IF c = 3 THEN 255
  ELSE LET f == EmitFractions(S, ps, tosrgb, tonorm, toyuv, k)[c + 1]
       IN  ToByte(f[1], f[2], ubmode)

\* Some conversion of the pixel is out of the range of uint8_t.
EmitOutOfRange(S, ps, tosrgb, tonorm, toyuv, k) ==
  LET f == EmitFractions(S, ps, tosrgb, tonorm, toyuv, k)
  IN  \E c \in 1 .. 3 : ~ByteInRange(f[c][1], f[c][2])

\* The bytes of one level: size bytes quantized from S at offset ps.
EmitLevel(S, ps, size, tosrgb, tonorm, toyuv, ubmode) ==
  [b \in 0 .. size - 1 |->
     EmitByte(S, ps + 4 * (b \div 4), tosrgb, tonorm, toyuv, 4 * (b \div 4), b % 4, ubmode)]

\* ------------------------------------------------------------ the state
VARIABLES
  inp,        \* the command line and the loaded nv::Image
  pc,         \* where main / high_pass stands
  layout,     \* the sink's texture layout <<w, h>>
  calls,      \* the sink's setMipmapData calls, in order
  levels,     \* HighPass::_levels
  width,      \* HighPass::_width
  count,      \* HighPass::_count
  sums,       \* HighPass::_sums, the pyramid of averages S
  wavbuf,     \* HighPass::_wavbuf, the pyramid of details D
  reconst,    \* HighPass::_reconst, the reconstruct buffer R
  outbuf,     \* the byte buffer pw of get_image_mips
  allocated,  \* the buffers malloc returned and nothing freed
  lvl,        \* the loop variable i of reconstruct and get_image_mips
  pos,        \* ps - _sums (= pw - its start) in get_image_mips
  ub,         \* the run has executed undefined behaviour
  walk,       \* the pointers of decompose, walked without the data (SizeSpec)
  fimage,     \* main's nvtt::Surface fimage: its <<width, height>>
  mip,        \* main's int mip, the level of the next mip it delivers
  cstream,    \* ZstdOutputHandler::cstream
  offset,     \* ZstdOutputHandler::offset
  bufsize,    \* ZstdOutputHandler::bufsize
  buffer,     \* ZstdOutputHandler::buffer, the bytes at 0 .. bufsize - 1
  stream,     \* the bytes MyOutputHandler::stream has been given, in order
  zout,       \* writeData's local ZSTD_outBuffer: pos and size
  zin,        \* writeData's local ZSTD_inBuffer: size and pos, and src
  zpc,        \* where writeData stands, and what its last call returned
  zlib,       \* the compressor: bytes it has put out, errors it has reported
  cov         \* the coverage path: the channels asked for, coverage0, and
              \* how often each channel of fimage and of every image
              \* delivered has been scaled to coverage

vars == <<inp, pc, layout, calls, levels, width, count, sums, wavbuf,
          reconst, outbuf, allocated, lvl, pos, ub, walk, fimage, mip,
          cstream, offset, bufsize, buffer, stream, zout, zin, zpc, zlib,
          cov>>

zvars == <<cstream, offset, bufsize, buffer, stream, zout, zin, zpc, zlib>>

hpvars == <<levels, width, count, sums, wavbuf, reconst, outbuf, allocated, lvl, pos>>

Empty == [idx \in {} |-> 0]

NoWalk == [phase |-> "off"]

\* The channels of a surface, and a surface none of whose channels has
\* been scaled to coverage.
Channels == 0 .. 3

Unscaled == [k \in Channels |-> 0]

\* The coverage path not entered.
NoCoverage ==
  cov = [channels |-> {}, coverage0 |-> [k \in Channels |-> <<>>],
         fimage |-> Unscaled, sent |-> <<>>]

\* ZstdOutputHandler as its member initialisers leave it: no compressor, an
\* empty buffer, nothing written to the stream, writeData not yet called.
NoHandler ==
  /\ cstream = "null"
  /\ offset = 0
  /\ bufsize = 0
  /\ buffer = <<>>
  /\ stream = <<>>
  /\ zout = [pos |-> 0, size |-> 0]
  /\ zin = [src |-> 0, size |-> 0, pos |-> 0]
  /\ zpc = [at |-> "idle", ret |-> TRUE, calls |-> 0, flushed |-> FALSE]
  /\ zlib = [out |-> 0, erred |-> FALSE, initFailed |-> FALSE, everErred |-> FALSE]

Init ==
  /\ inp \in [img : Images, linear : BOOLEAN, normal : BOOLEAN,
              yuv : {0, 1}, skip : Skips]
  /\ ~(inp.linear /\ inp.normal)
  /\ pc = "main"
  /\ layout = <<>>
  /\ calls = <<>>
  /\ levels = 0
  /\ width = 0
  /\ count = 0
  /\ sums = Empty
  /\ wavbuf = Empty
  /\ reconst = Empty
  /\ outbuf = Empty
  /\ allocated = {}
  /\ lvl = 0
  /\ pos = 0
  /\ ub = FALSE
  /\ walk = NoWalk
  /\ fimage = <<>>
  /\ mip = 0
  /\ NoHandler
  /\ NoCoverage

\* The arguments main passes: high_pass(&inputOptions, &image,
\* linear || normal, normal, yuv, highPassSkip).
ArgLinear == inp.linear \/ inp.normal
ArgToNormal == inp.normal
ArgToYuv == inp.yuv # 0
ArgSkip == inp.skip

\* main: inputOptions.setTextureLayout(TextureType_2D, image.width, image.height)
SetTextureLayout ==
  /\ pc = "main"
  /\ layout' = <<inp.img.w, inp.img.h>>
  /\ pc' = "high_pass"
  /\ UNCHANGED <<zvars, cov, inp, fimage, mip, walk, calls, hpvars, ub>>

\* _sums allocated ahead of the width test.
MallocsBeforeTestMut == {"sums"}

\* The mallocs decompose has run when its width test returns false: the
\* test is its first statement.
MallocsBeforeTest == {}

\* high_pass: hp.decompose(pixels, image->width, 0, !linear, to_normal)
\* returns false, high_pass returns false and main returns 1.
DecomposeFail ==
  /\ pc = "high_pass"
  /\ LenAndPred(inp.img.w) # 0
  /\ allocated' = allocated \cup MallocsBeforeTest
  /\ pc' = "failed"
  /\ UNCHANGED <<zvars, cov, inp, fimage, mip, walk, layout, calls, levels, width, count, sums, wavbuf,
                 reconst, outbuf, lvl, pos, ub>>

\* Rows that decompose reads past the end of the pixel buffer.
ReadsPastImage == inp.img.h < inp.img.w

\* hp.decompose(...) returns true.
Decompose ==
  /\ pc = "high_pass"
  /\ LenAndPred(inp.img.w) = 0
  /\ \E g \in 1 .. Len(Palette) :
       LET len == inp.img.w
           b   == DecomposeBuffers(inp.img, len, ~ArgLinear, ArgToNormal, g)
       IN  /\ ReadsPastImage \/ g = 1
           /\ levels' = int_low_pow2(len)
           /\ width' = len
           /\ count' = CountOf(len)
           /\ sums' = b.S
           /\ wavbuf' = b.D
           /\ allocated' = allocated \cup {"sums", "wrkgray", "wavbuf"}
           /\ ub' = (ub \/ ReadsPastImage \/ b.top < 0)
  /\ pc' = "reconstruct"
  /\ UNCHANGED <<zvars, cov, inp, fimage, mip, walk, layout, calls, reconst, outbuf, lvl, pos>>

\* The read past the pixel buffer faults.
DecomposeCrash ==
  /\ pc = "high_pass"
  /\ LenAndPred(inp.img.w) = 0
  /\ ReadsPastImage
  /\ pc' = "crashed"
  /\ ub' = TRUE
  /\ UNCHANGED <<zvars, cov, inp, fimage, mip, walk, layout, calls, hpvars>>

\* reconstruct: _reconst = malloc((_count - 1) * sizeof(float)); i = 0
Reconstruct ==
  /\ pc = "reconstruct"
  /\ reconst' = [idx \in 0 .. count - 2 |-> Uninit]
  /\ allocated' = allocated \cup {"reconst"}
  /\ lvl' = 0
  /\ pc' = "reconstruct_level"
  /\ UNCHANGED <<zvars, cov, inp, fimage, mip, walk, layout, calls, levels, width, count, sums, wavbuf, outbuf, pos, ub>>

\* One pass of the loop of reconstruct: reconstruct_level(i, unfiltered); ++i
ReconstructLevel ==
  /\ pc = "reconstruct_level"
  /\ count >= 5
  /\ LET r == reconstruct_level(sums, wavbuf, reconst, count, width, levels, lvl, ArgSkip)
     IN  /\ reconst' = r.R
         /\ sums' = r.S
  /\ IF lvl < levels
     THEN lvl' = lvl + 1 /\ pc' = pc
     ELSE lvl' = levels + 1 /\ pc' = "get_image_mips"
  /\ UNCHANGED <<zvars, cov, inp, fimage, mip, walk, layout, calls, levels, width, count, wavbuf, outbuf, allocated, pos, ub>>

\* With _count < 5 the seed of R is written before the start of _reconst.
ReconstructCrash ==
  /\ pc = "reconstruct_level"
  /\ count < 5
  /\ pc' = "crashed"
  /\ ub' = TRUE
  /\ UNCHANGED <<zvars, cov, inp, fimage, mip, walk, layout, calls, hpvars>>

\* One shift of the level's size dropped: 4 << i.
MipSizeMut(i) == 4 * Shl1(i)

\* uint size = 4 << i << i
MipSize(i) == 4 * Shl1(i) * Shl1(i)

\* setMipmapData handed i instead of _levels - i.
LevelIndexMut(lv, i) == i

\* The level argument of setMipmapData: _levels - i
LevelIndex(lv, i) == lv - i

\* One pass of the level loop of get_image_mips: --i, the level's pixels
\* quantized into pw, and input->setMipmapData(pwl, width, width, 1, 0, _levels - i).
GetImageMipsLevel ==
  /\ pc = "get_image_mips"
  /\ lvl > 0
  /\ \E ubmode \in {"wrap", "sat"} :
       LET i     == lvl - 1
           wd    == Shl1(i)
           size  == MipSize(i)
           bytes == EmitLevel(sums, pos, size, ~ArgLinear, ArgToNormal, ArgToYuv, ubmode)
           buf   == IF outbuf = Empty THEN [idx \in 0 .. count - 1 |-> Uninit] ELSE outbuf
       IN  /\ outbuf' = [idx \in DOMAIN buf |->
                           IF idx >= pos /\ idx < pos + size THEN bytes[idx - pos]
                           ELSE buf[idx]]
           /\ calls' = Append(calls, [level |-> LevelIndex(levels, i), w |-> wd, h |-> wd,
                                      ptr |-> pos, data |-> bytes])
           /\ ub' = (ub \/ \E k \in 0 .. (size \div 4) - 1 :
                            EmitOutOfRange(sums, pos + 4 * k, ~ArgLinear, ArgToNormal,
                                           ArgToYuv, 4 * k))
           /\ pos' = pos + size
           /\ lvl' = i
  /\ allocated' = allocated \cup {"pw"}
  /\ pc' = pc
  /\ UNCHANGED <<zvars, cov, inp, fimage, mip, walk, layout, levels, width, count, sums, wavbuf, reconst>>

\* get_image_mips and high_pass return; hp goes out of scope.  HighPass
\* declares no destructor and nothing calls free.
Return ==
  /\ pc = "get_image_mips"
  /\ lvl = 0
  /\ pc' = "done"
  /\ UNCHANGED <<zvars, cov, inp, fimage, mip, walk, layout, calls, hpvars, ub>>

\* ------------------------------------------- high_pass, pointers only
\* The same decompose, reconstruct and get_image_mips with the buffers'
\* contents left out: only the loop variables and the pointers (as offsets
\* from the start of their buffer) move, and each step records the index
\* ranges it touches.  It reaches the widths whose pyramids are too large
\* to hold as values.
MaxSizeLevels == 12

\* struct pass_info { float median[3]; float sqdiff[3]; }: the length of
\* its arrays, and the float a member index stands for, counted from the
\* start of _info.
InfoLen == 3

InfoArrays == {"median", "sqdiff"}

InfoFloat(rec, arr, k) == 2 * InfoLen * rec + (IF arr = "median" THEN 0 ELSE InfoLen) + k

\* The record of _info a float lies in.
InfoRecord(f) == f \div (2 * InfoLen)

\* for (uint k = 0; k < 4; ++k, ++i): _current->median[k] += v;
\* _current->sqdiff[k] += v * v, as <<array, index>> pairs.
StatIndices == {<<arr, k>> : arr \in InfoArrays, k \in 0 .. 3}

\* pi.median[0..2] = d * ..., pi.sqdiff[0..2] = sqrtf(d * ...)
FinalIndices == {<<arr, k>> : arr \in InfoArrays, k \in 0 .. 2}

\* The buffers of HighPass and of get_image_mips, and what malloc is asked
\* for each: floats of S, D and R, bytes of gray and of the output.
Buffers == {"S", "D", "gray", "R", "out"}

Allocated(buf, len) ==
  IF buf = "S" THEN CountOf(len)
  ELSE IF buf = "D" THEN WavSize(len)
  ELSE IF buf = "gray" THEN GraySize(len)
  ELSE IF buf = "R" THEN CountOf(len) - 1
  ELSE CountOf(len)

\* What one call load_row_fn(rgbx, ps, len) and the scan of the row for
\* its extremes touch: <<buffer, first index, last index>>.
load_rowAccess(ps, len) == {<<"S", ps, ps + 4 * len - 1>>}

\* What one call decompose_rows(pin, pin + pitch, w, ps, pw, pg) touches:
\* rgb1[i] and rgb1[i + 4], rgb2 alike, 4 sums, 12 details and 4 gray bytes
\* (and gray[-1]) per 2x2 block, w / 2 blocks.
decompose_rowsAccess(pin, pitch, w, ps, pw, pg) ==
  LET last == 8 * (w \div 2 - 1) + 3
  IN  {<<"S", pin, pin + last + 4>>,
       <<"S", pin + pitch, pin + pitch + last + 4>>,
       <<"S", ps, ps + 4 * (w \div 2) - 1>>,
       <<"D", pw, pw + 3 * 4 * (w \div 2) - 1>>,
       <<"gray", pg, pg + 4 * (w \div 2) - 1>>}

\* ps -= 4 and the top average aligned (or set, for normals) in ps[0..2].
TopAccess(ps) == {<<"S", ps - 4, ps - 4 + 2>>}

\* The seed of R taken four floats too high.
ReconstTopMut(cnt) == cnt - 1

\* float* pr = _reconst + (_count - 1 - 4)
ReconstTop(cnt) == cnt - 1 - 4

\* pr[0..3] = ps[-4 + 0 .. -4 + 3] with ps = _sums + _count - 1
SeedAccess(cnt) ==
  {<<"S", cnt - 1 - 4, cnt - 1 - 4 + 3>>,
   <<"R", ReconstTop(cnt), ReconstTop(cnt) + 3>>}

\* What one call compose_rows(pro, pro + 4 * 2 * w, 2 * w, pso, pdo, cf)
\* touches: 4 sums read through pso (a pointer into R), 12 details, and
\* rgb1[i], rgb1[i + 4], rgb2 alike, per block, w blocks.
compose_rowsAccess(pro, w, pso, pdo) ==
  LET last == 8 * (w - 1) + 3
  IN  {<<"R", pso, pso + 4 * w - 1>>,
       <<"D", pdo, pdo + 3 * 4 * w - 1>>,
       <<"R", pro, pro + last + 4>>,
       <<"R", pro + 4 * 2 * w, pro + 4 * 2 * w + last + 4>>}

\* ::memcpy(_sums + offs, pr, (4 << level << level) * sizeof(float))
memcpyAccess(offs, level) ==
  {<<"S", offs, offs + 4 * Shl1(level) * Shl1(level) - 1>>,
   <<"R", offs, offs + 4 * Shl1(level) * Shl1(level) - 1>>}

\* One level of get_image_mips: ps[0..2] of each pixel read (ps[1..2] for
\* normals), four bytes written through pw, size / 4 pixels.
EmitAccess(ps, pout, size) ==
  {<<"S", ps, ps + size - 4 + 2>>, <<"out", pout, pout + size - 1>>}

WalkStart(len) ==
  [phase |-> "load", len |-> len, levels |-> int_low_pow2(len),
   count |-> CountOf(len), pitch |-> 4 * len, i |-> 0, j |-> 0, w |-> 0,
   rgbx |-> 0, pin |-> 0, ps |-> 0, pw |-> 0, pg |-> 0, pso |-> 0,
   sfloats |-> 0, dfloats |-> 0, current |-> 0 - 1, stat |-> {},
   acc |-> {}, unfiltered |-> 0, level |-> 0, levsup |-> 0, pr |-> 0,
   pd |-> 0, k |-> 0, pdo |-> 0, pro |-> 0, pout |-> 0]

\* for (i = 0; i < len; ++i, ps += 4 * len, rgbx += pitch) load_row_fn(rgbx, ps, len)
WalkLoadRow ==
  /\ walk.phase = "load"
  /\ walk.i < walk.len
  /\ walk' = [walk EXCEPT !.i = @ + 1, !.ps = @ + 4 * walk.len,
                          !.rgbx = @ + walk.pitch,
                          !.acc = load_rowAccess(walk.ps, walk.len)]
  /\ UNCHANGED <<zvars, cov, inp, fimage, mip, pc, layout, calls, hpvars, ub>>

\* pitch = 4 * len; pw = _wavbuf; pin = _sums; i = _levels + 1
WalkLoadDone ==
  /\ walk.phase = "load"
  /\ walk.i >= walk.len
  /\ walk' = [walk EXCEPT !.phase = "levels", !.pitch = 4 * walk.len,
                          !.pw = 0, !.pin = 0, !.i = walk.levels + 1,
                          !.acc = {}]
  /\ UNCHANGED <<zvars, cov, inp, fimage, mip, pc, layout, calls, hpvars, ub>>

\* i > 1: --i; w = 1 << i; _current = &_info[i]; pso = ps; pg = _wrkgray;
\* j = 0.  stat holds the member indices used on _current since.
WalkLevelBegin ==
  /\ walk.phase = "levels"
  /\ walk.i > 1
  /\ walk' = [walk EXCEPT !.phase = "rows", !.i = @ - 1, !.w = Shl1(walk.i - 1),
                          !.pso = walk.ps, !.pg = 0, !.j = 0,
                          !.current = walk.i - 1, !.stat = {}, !.acc = {}]
  /\ UNCHANGED <<zvars, cov, inp, fimage, mip, pc, layout, calls, hpvars, ub>>

\* j < w: decompose_rows(pin, pin + pitch, w, ps, pw, pg) and the pointer steps
WalkRowPair ==
  /\ walk.phase = "rows"
  /\ walk.j < walk.w
  /\ walk' = [walk EXCEPT !.pin = @ + 2 * walk.pitch,
                          !.ps = @ + 4 * (walk.w \div 2),
                          !.pg = @ + 4 * (walk.w \div 2),
                          !.pw = @ + 3 * 4 * (walk.w \div 2),
                          !.j = @ + 2,
                          !.stat = @ \cup StatIndices,
                          !.acc = decompose_rowsAccess(walk.pin, walk.pitch, walk.w,
                                                       walk.ps, walk.pw, walk.pg)]
  /\ UNCHANGED <<zvars, cov, inp, fimage, mip, pc, layout, calls, hpvars, ub>>

\* j >= w: the statistics of pi are scaled; pin = pso; pitch = 4 * w / 2
WalkLevelEnd ==
  /\ walk.phase = "rows"
  /\ walk.j >= walk.w
  /\ walk' = [walk EXCEPT !.phase = "levels", !.pin = walk.pso,
                          !.pitch = (4 * walk.w) \div 2,
                          !.stat = @ \cup FinalIndices, !.acc = {}]
  /\ UNCHANGED <<zvars, cov, inp, fimage, mip, pc, layout, calls, hpvars, ub>>

\* i <= 1: the loop ends with ps past the last average and pw past the last
\* detail written; ps -= 4 then points at the top average.
WalkTop ==
  /\ walk.phase = "levels"
  /\ walk.i <= 1
  /\ walk' = [walk EXCEPT !.phase = "done", !.sfloats = walk.ps,
                          !.dfloats = walk.pw, !.ps = @ - 4,
                          !.acc = TopAccess(walk.ps)]
  /\ UNCHANGED <<zvars, cov, inp, fimage, mip, pc, layout, calls, hpvars, ub>>

\* hp.reconstruct(skip_mips): _reconst allocated, i = 0.
WalkReconstruct ==
  /\ walk.phase = "done"
  /\ \E skip \in Skips :
       walk' = [walk EXCEPT !.phase = "reconstruct", !.unfiltered = skip,
                            !.level = 0, !.acc = {}]
  /\ UNCHANGED <<zvars, cov, inp, fimage, mip, pc, layout, calls, hpvars, ub>>

\* i <= _levels: reconstruct_level(i, unfiltered) is entered: pd at the
\* end of D, pr at the top of R and seeded from the top of S, levsup set.
WalkReconstructLevel ==
  /\ walk.phase = "reconstruct"
  /\ walk.level <= walk.levels
  /\ walk' = [walk EXCEPT !.phase = "compose", !.i = 0,
                          !.pd = 4 * walk.len * walk.len - 4,
                          !.pr = ReconstTop(walk.count),
                          !.levsup = LevSup(walk.levels, walk.level, walk.unfiltered),
                          !.acc = SeedAccess(walk.count)]
  /\ UNCHANGED <<zvars, cov, inp, fimage, mip, pc, layout, calls, hpvars, ub>>

\* i < level: w = 1 << i; s = w << i; ps = pr; pd -= 4 * 3 * s;
\* pr -= 4 * 4 * s; pso = ps; pdo = pd; pro = pr; k = 0
WalkComposeBegin ==
  /\ walk.phase = "compose"
  /\ walk.i < walk.level
  /\ LET w == Shl1(walk.i)
         s == w * Shl1(walk.i)
     IN  walk' = [walk EXCEPT !.phase = "compose_rows", !.w = w,
                              !.ps = walk.pr, !.pso = walk.pr,
                              !.pd = @ - 4 * 3 * s, !.pdo = walk.pd - 4 * 3 * s,
                              !.pr = @ - 4 * 4 * s, !.pro = walk.pr - 4 * 4 * s,
                              !.k = 0, !.acc = {}]
  /\ UNCHANGED <<zvars, cov, inp, fimage, mip, pc, layout, calls, hpvars, ub>>

\* k < w: compose_rows(pro, pro + 4 * 2 * w, 2 * w, pso, pdo, cf);
\* ++k, pso += 4 * w, pdo += 4 * 3 * w, pro += 2 * 4 * 2 * w
WalkComposeRows ==
  /\ walk.phase = "compose_rows"
  /\ walk.k < walk.w
  /\ walk' = [walk EXCEPT !.k = @ + 1, !.pso = @ + 4 * walk.w,
                          !.pdo = @ + 4 * 3 * walk.w,
                          !.pro = @ + 2 * 4 * 2 * walk.w,
                          !.acc = compose_rowsAccess(walk.pro, walk.w, walk.pso, walk.pdo)]
  /\ UNCHANGED <<zvars, cov, inp, fimage, mip, pc, layout, calls, hpvars, ub>>

\* k >= w: ++i
WalkComposeEnd ==
  /\ walk.phase = "compose_rows"
  /\ walk.k >= walk.w
  /\ walk' = [walk EXCEPT !.phase = "compose", !.i = @ + 1, !.acc = {}]
  /\ UNCHANGED <<zvars, cov, inp, fimage, mip, pc, layout, calls, hpvars, ub>>

\* i >= level: the composed level is copied into S at offs = pr - _reconst,
\* reconstruct_level returns and reconstruct steps to the next level.
WalkReconstructLevelEnd ==
  /\ walk.phase = "compose"
  /\ walk.i >= walk.level
  /\ walk' = [walk EXCEPT !.phase = "reconstruct", !.level = @ + 1,
                          !.acc = memcpyAccess(walk.pr, walk.level)]
  /\ UNCHANGED <<zvars, cov, inp, fimage, mip, pc, layout, calls, hpvars, ub>>

\* i > _levels: reconstruct returns; get_image_mips: ps = _sums,
\* pw = malloc(_count), i = _levels + 1
WalkGetImageMips ==
  /\ walk.phase = "reconstruct"
  /\ walk.level > walk.levels
  /\ walk' = [walk EXCEPT !.phase = "get_image_mips", !.i = walk.levels + 1,
                          !.ps = 0, !.pout = 0, !.acc = {}]
  /\ UNCHANGED <<zvars, cov, inp, fimage, mip, pc, layout, calls, hpvars, ub>>

\* i > 0: --i; size = 4 << i << i; the level's pixels are emitted.
WalkEmitLevel ==
  /\ walk.phase = "get_image_mips"
  /\ walk.i > 0
  /\ LET size == MipSize(walk.i - 1)
     IN  walk' = [walk EXCEPT !.i = @ - 1, !.ps = @ + size, !.pout = @ + size,
                              !.acc = EmitAccess(walk.ps, walk.pout, size)]
  /\ UNCHANGED <<zvars, cov, inp, fimage, mip, pc, layout, calls, hpvars, ub>>

\* i = 0: get_image_mips returns.
WalkReturn ==
  /\ walk.phase = "get_image_mips"
  /\ walk.i = 0
  /\ walk' = [walk EXCEPT !.phase = "returned", !.acc = {}]
  /\ UNCHANGED <<zvars, cov, inp, fimage, mip, pc, layout, calls, hpvars, ub>>

SizeInit ==
  /\ inp = [img |-> [w |-> 1, h |-> 1, pat |-> "flat", c0 |-> 1, c1 |-> 1],
            linear |-> TRUE, normal |-> FALSE, yuv |-> 0, skip |-> 0]
  /\ pc = "decompose"
  /\ layout = <<>>
  /\ calls = <<>>
  /\ levels = 0
  /\ width = 0
  /\ count = 0
  /\ sums = Empty
  /\ wavbuf = Empty
  /\ reconst = Empty
  /\ outbuf = Empty
  /\ allocated = {}
  /\ lvl = 0
  /\ pos = 0
  /\ ub = FALSE
  /\ \E k \in 0 .. MaxSizeLevels : walk = WalkStart(2^k)
  /\ fimage = <<>>
  /\ mip = 0
  /\ NoHandler
  /\ NoCoverage

SizeNext ==
  \/ WalkLoadRow
  \/ WalkLoadDone
  \/ WalkLevelBegin
  \/ WalkRowPair
  \/ WalkLevelEnd
  \/ WalkTop
  \/ WalkReconstruct
  \/ WalkReconstructLevel
  \/ WalkComposeBegin
  \/ WalkComposeRows
  \/ WalkComposeEnd
  \/ WalkReconstructLevelEnd
  \/ WalkGetImageMips
  \/ WalkEmitLevel
  \/ WalkReturn

SizeSpec == SizeInit /\ [][SizeNext]_vars

Next ==
  \/ SetTextureLayout
  \/ DecomposeFail
  \/ Decompose
  \/ DecomposeCrash
  \/ Reconstruct
  \/ ReconstructLevel
  \/ ReconstructCrash
  \/ GetImageMipsLevel
  \/ Return

Spec == Init /\ [][Next]_vars

\* ----------------------------------------------- main: the mip paths
\* main of nvcompress from the choice of the input path on.  The command
\* line is held as the flags it set; the image files as whether they load.
Formats == {"RGBM", "BC6", "other"}

MainImages ==
  { img \in [w : 1 .. 4, h : {1, 2, 4}, pat : {"flat"}, c0 : {1}, c1 : {1}] : TRUE }

MainInputs ==
  [img : MainImages, linear : {TRUE}, normal : {FALSE}, yuv : {0}, skip : {0},
   format : Formats, dds : BOOLEAN, loads : BOOLEAN,
   highPassMips : BOOLEAN, input_normal_for_roughness : BOOLEAN,
   normalLoads : BOOLEAN, scaleCoverageChannels : BOOLEAN, fillHoles : BOOLEAN]

MainInit ==
  /\ inp \in MainInputs
  /\ pc = "start"
  /\ layout = <<>>
  /\ calls = <<>>
  /\ levels = 0
  /\ width = 0
  /\ count = 0
  /\ sums = Empty
  /\ wavbuf = Empty
  /\ reconst = Empty
  /\ outbuf = Empty
  /\ allocated = {}
  /\ lvl = 0
  /\ pos = 0
  /\ ub = FALSE
  /\ walk = NoWalk
  /\ fimage = <<>>
  /\ mip = 0
  /\ NoHandler
  /\ NoCoverage

\* The chain tested with roughness and coverage swapped.
MipPathMut(i) ==
  IF i.highPassMips THEN "high_pass"
  ELSE IF i.scaleCoverageChannels THEN "coverage"
  ELSE IF i.input_normal_for_roughness THEN "roughness"
  ELSE IF i.fillHoles THEN "fill_holes"
  ELSE "plain"

\* if (highPassMips) ... else if (!input_normal_for_roughness.isNull()) ...
\* else if (scaleCoverageChannels[0] || ...) ... else if (fillHoles) ... else
MipPath(i) ==
  IF i.highPassMips THEN "high_pass"
  ELSE IF i.input_normal_for_roughness THEN "roughness"
  ELSE IF i.scaleCoverageChannels THEN "coverage"
  ELSE IF i.fillHoles THEN "fill_holes"
  ELSE "plain"

\* inputOptions.setMipmapData(pixels, w, h, 1, 0, level) made by a path of main.
Delivery(by, level, w, h) == [by |-> by, level |-> level, w |-> w, h |-> h]

\* ++mip left out.
NextMipMut(m) == m

\* ++mip
NextMip(m) == m + 1

\* Surface::buildNextMipmap(MipmapFilter_Box): false once the surface is
\* 1x1, else every extent halves, down to 1.
CanBuildNextMipmap(f) == ~(f[1] = 1 /\ f[2] = 1)

HalfExtent(n) == IF n \div 2 < 1 THEN 1 ELSE n \div 2

buildNextMipmap(f) == <<HalfExtent(f[1]), HalfExtent(f[2])>>

mainvars == <<levels, width, count, sums, wavbuf, reconst, outbuf, allocated,
              lvl, pos, ub, walk, zvars>>

\* format is BC3_RGBM, ETC2_RGBM or BC6, or -rgbm: the image goes through
\* the Surface API (useSurface) and none of the mip paths below runs.
MainSurface ==
  /\ pc = "start"
  /\ inp.format \in {"RGBM", "BC6"}
  /\ pc' = IF inp.loads THEN "surface" ELSE "exit_failure"
  /\ UNCHANGED <<zvars, cov, inp, fimage, mip, layout, calls, mainvars>>

\* The input is a .dds file: its own mipmaps are handed to the sink (a 2D
\* texture of one face, mipmapCount levels).
MainDDS ==
  /\ pc = "start"
  /\ inp.format = "other"
  /\ inp.dds
  /\ IF ~inp.loads
     THEN pc' = "exit_failure" /\ UNCHANGED <<layout, calls>>
     ELSE /\ pc' = "dds"
          /\ layout' = <<inp.img.w, inp.img.h>>
          /\ \E mipmapCount \in 1 .. 2 :
               calls' = [m \in 1 .. mipmapCount |->
                           Delivery("dds", m - 1,
                                    IF m = 1 THEN inp.img.w ELSE HalfExtent(inp.img.w),
                                    IF m = 1 THEN inp.img.h ELSE HalfExtent(inp.img.h))]
  /\ UNCHANGED <<zvars, cov, inp, fimage, mip, mainvars>>

\* A regular image: image.load, then the if / else-if chain picks the path.
MainLoadImage ==
  /\ pc = "start"
  /\ inp.format = "other"
  /\ ~inp.dds
  /\ pc' = IF ~inp.loads THEN "exit_failure"
           ELSE IF MipPath(inp) = "high_pass" THEN "main"
           ELSE MipPath(inp)
  /\ UNCHANGED <<zvars, cov, inp, fimage, mip, layout, calls, mainvars>>

\* The roughness path up to its loop: the normal map is loaded (return 1
\* when it does not), the layout is set and level 0 is delivered; mip = 1.
MainRoughnessBegin ==
  /\ pc = "roughness"
  /\ IF ~inp.normalLoads
     THEN pc' = "exit_failure" /\ UNCHANGED <<layout, calls, fimage, mip>>
     ELSE /\ fimage' = <<inp.img.w, inp.img.h>>
          /\ layout' = <<inp.img.w, inp.img.h>>
          \* setMipmapData(img_0.pixels(), img_0.width, img_0.height): mipmap 0
          /\ calls' = Append(calls, Delivery("roughness", 0, inp.img.w, inp.img.h))
          /\ mip' = 1
          /\ pc' = "roughness_mips"
  /\ UNCHANGED <<cov, inp, mainvars>>

\* while (fimage.buildNextMipmap(MipmapFilter_Box)) { roughnessMipFromNormal;
\* setMipmapData(img.pixels(), img.width, img.height, 1, 0, mip); ++mip; }
MainRoughnessMip ==
  /\ pc = "roughness_mips"
  /\ CanBuildNextMipmap(fimage)
  /\ fimage' = buildNextMipmap(fimage)
  /\ calls' = Append(calls, Delivery("roughness", mip, fimage'[1], fimage'[2]))
  /\ mip' = NextMip(mip)
  /\ UNCHANGED <<cov, inp, pc, layout, mainvars>>

\* buildNextMipmap returns false: the loop ends.
MainRoughnessDone ==
  /\ pc = "roughness_mips"
  /\ ~CanBuildNextMipmap(fimage)
  /\ pc' = "roughness_done"
  /\ UNCHANGED <<zvars, cov, inp, fimage, mip, layout, calls, mainvars>>

\* Surface::alphaTestCoverage(alphaRef, k): the coverage of channel k, of
\* the surface it is asked of: the mip level and the scalings of the channel.
alphaTestCoverage(s, level, k) == <<level, s[k]>>

\* mip_img.setImage(w, h, 1); mip_img.copy(fimage, ...): mip_img gets
\* fimage's pixels, in storage of its own.
SurfaceCopy(s) == s

\* Surface::scaleAlphaToCoverage(coverage, alphaRef, k): channel k of the
\* surface it is called on is scaled once more.
scaleAlphaToCoverage(s, k) == [s EXCEPT ![k] = @ + 1]

\* for (k = 0; k < 4; ++k) if (scaleCoverageChannels[k])
\*   mip_img.scaleAlphaToCoverage(coverage0[k], scaleCoverage[k], k)
ScaleChannels(s, chans) ==
  [k \in Channels |-> IF k \in chans THEN scaleAlphaToCoverage(s, k)[k] ELSE s[k]]

\* The scaling made on fimage itself.
ScaledSurfaceMut(f, mip_img) == mip_img

\* What fimage holds after the loop body: scaleAlphaToCoverage was called
\* on mip_img, which shares no pixels with fimage.
ScaledSurface(f, mip_img) == f

\* toNvImage(surface, img): the surface's float channels clamped and
\* quantized into the Color32 pixels of an nv::Image.
toNvImage(s) == [pixels |-> "Color32", scaled |-> s]

\* The coverage path up to its loop: the layout is set, level 0 is
\* delivered and coverage0 is measured; mip = 1.
MainCoverageBegin ==
  /\ pc = "coverage"
  /\ fimage' = <<inp.img.w, inp.img.h>>
  /\ layout' = <<inp.img.w, inp.img.h>>
  /\ calls' = Append(calls, Delivery("coverage", 0, inp.img.w, inp.img.h))
  /\ \E chans \in (SUBSET Channels) \ {{}} :
       cov' = [channels |-> chans,
               fimage |-> Unscaled,
               sent |-> <<toNvImage(Unscaled)>>,
               coverage0 |-> [k \in Channels |->
                                IF k \in chans THEN alphaTestCoverage(Unscaled, 0, k)
                                ELSE <<>>]]
  /\ mip' = 1
  /\ pc' = "coverage_mips"
  /\ UNCHANGED <<inp, mainvars>>

\* while (fimage.buildNextMipmap(MipmapFilter_Box)) { mip_img = copy of
\* fimage; scaleAlphaToCoverage; setMipmapData(..., 1, 0, mip); ++mip; }
MainCoverageMip ==
  /\ pc = "coverage_mips"
  /\ CanBuildNextMipmap(fimage)
  /\ fimage' = buildNextMipmap(fimage)
  /\ calls' = Append(calls, Delivery("coverage", mip, fimage'[1], fimage'[2]))
  /\ LET mip_img == ScaleChannels(SurfaceCopy(cov.fimage), cov.channels)
     IN  cov' = [cov EXCEPT !.fimage = ScaledSurface(cov.fimage, mip_img),
                            !.sent = Append(@, toNvImage(mip_img))]
  /\ mip' = NextMip(mip)
  /\ UNCHANGED <<inp, pc, layout, mainvars>>

MainCoverageDone ==
  /\ pc = "coverage_mips"
  /\ ~CanBuildNextMipmap(fimage)
  /\ pc' = "coverage_done"
  /\ UNCHANGED <<zvars, cov, inp, fimage, mip, layout, calls, mainvars>>

\* The hole-fill path: the filled image is delivered as level 0.
MainFillHoles ==
  /\ pc = "fill_holes"
  /\ layout' = <<inp.img.w, inp.img.h>>
  /\ calls' = Append(calls, Delivery("fill_holes", 0, inp.img.w, inp.img.h))
  /\ pc' = "fill_holes_done"
  /\ UNCHANGED <<zvars, cov, inp, fimage, mip, mainvars>>

\* The plain path: the image is delivered as level 0.
MainPlain ==
  /\ pc = "plain"
  /\ layout' = <<inp.img.w, inp.img.h>>
  /\ calls' = Append(calls, Delivery("plain", 0, inp.img.w, inp.img.h))
  /\ pc' = "plain_done"
  /\ UNCHANGED <<zvars, cov, inp, fimage, mip, mainvars>>

MainNext ==
  \/ MainSurface
  \/ MainDDS
  \/ MainLoadImage
  \/ SetTextureLayout
  \/ DecomposeFail
  \/ Decompose
  \/ DecomposeCrash
  \/ Reconstruct
  \/ ReconstructLevel
  \/ GetImageMipsLevel
  \/ Return
  \/ MainRoughnessBegin
  \/ MainRoughnessMip
  \/ MainRoughnessDone
  \/ MainCoverageBegin
  \/ MainCoverageMip
  \/ MainCoverageDone
  \/ MainFillHoles
  \/ MainPlain

MainSpec == MainInit /\ [][MainNext]_vars

\* ------------------------------------------- ZstdOutputHandler::writeData
\* main writes the compressed texture through one ZstdOutputHandler when
\* -zstd is given: the compressor calls writeData(src, size) with data and
\* main ends with writeData(0, 0).  The zstd library is called, not
\* compiled here: each of its calls is a choice among the results its
\* interface allows.  The k-th byte the compressor puts out is written k,
\* so that any loss, repetition or reordering shows in the stream.
InSize == 2

MaxIn == 2

MaxOut == 4

MaxWrites == 3

\* ZSTD_CStreamInSize(), the size the handler gives its output buffer.
ZSTD_CStreamInSize == InSize

\* What ZSTD_initCStream, ZSTD_compressStream and ZSTD_endStream report.
\* An error is a value for which ZSTD_isError holds; as a size_t it is
\* greater than 0, as is the number of bytes ZSTD_endStream has left.
InitResults == {"ok", "error"}

CompressResults == {"ok", "error"}

EndResults == {"done", "more", "error"}

\* while (ZSTD_endStream(cstream, &zout) > 0)
EndStreamAgain(res) == res \in {"more", "error"}

\* The test of a full buffer tested strict.
BufferFullMut(z) == z.pos > z.size

\* if (zout.pos >= zout.size)
BufferFull(z) == z.pos >= z.size

\* The bytes first .. first + n - 1 of the compressor's output.
Produced(first, n) == [k \in 1 .. n |-> first + k - 1]

\* The compressor puts n bytes at zout.dst + zout.pos.
PutOut(buf, at, n) ==
  [k \in 1 .. Len(buf) |->
     IF k > at /\ k <= at + n THEN zlib.out + (k - at) ELSE buf[k]]

\* stream->serialize(zout.dst, (uint)zout.pos)
serialize(s, buf, n) == s \o SubSeq(buf, 1, n)

\* writeData is entered: the compressor is created and initialised on the
\* first call, the ZSTD_outBuffer is set on the handler's buffer at offset,
\* and the call goes either to the flush (src = 0) or to the compress loop.
\* cstream is assigned before ZSTD_initCStream is tested, so a failed
\* initialisation leaves it non-null, with bufsize 0 and no buffer.
WriteDataCall ==
  /\ zpc.at \in {"idle", "returned"}
  /\ zpc.calls < MaxWrites
  /\ ~zpc.flushed
  /\ \E src \in {0, 1}, size \in 0 .. MaxIn, ini \in InitResults :
       /\ (src = 0) = (size = 0)
       /\ cstream # "null" => ini = "ok"
       /\ IF cstream = "null" /\ ini = "error"
          THEN /\ cstream' = "failed"
               /\ zpc' = [at |-> "returned", ret |-> FALSE,
                          calls |-> zpc.calls + 1, flushed |-> src = 0]
               /\ zlib' = [zlib EXCEPT !.erred = TRUE, !.initFailed = TRUE,
                                       !.everErred = TRUE]
               /\ UNCHANGED <<bufsize, buffer, zout, zin>>
          ELSE /\ cstream' = IF cstream = "null" THEN "ready" ELSE cstream
               /\ bufsize' = IF cstream = "null" THEN ZSTD_CStreamInSize ELSE bufsize
               /\ buffer' = IF cstream = "null"
                            THEN [k \in 1 .. ZSTD_CStreamInSize |-> 0]
                            ELSE buffer
               /\ zout' = [pos |-> offset, size |-> bufsize']
               /\ zin' = [src |-> src, size |-> size, pos |-> 0]
               /\ zpc' = [at |-> IF src = 0 THEN "flush" ELSE "compress",
                          ret |-> zpc.ret, calls |-> zpc.calls + 1,
                          flushed |-> src = 0]
               /\ zlib' = [zlib EXCEPT !.erred = FALSE]
  /\ UNCHANGED <<offset, stream>>
  /\ UNCHANGED <<cov, inp, pc, layout, calls, fimage, mip, levels, width, count,
                 sums, wavbuf, reconst, outbuf, allocated, lvl, pos, ub, walk>>

\* One turn of do { ZSTD_compressStream ... } while (zin.size > zin.pos):
\* the compressor takes nIn bytes of the input and puts nOut bytes out, or
\* reports an error and writeData returns false at once, offset unsaved.
\* An initialised compressor given room and input makes progress.
CompressTurn ==
  /\ zpc.at = "compress"
  /\ \E res \in CompressResults, nIn \in 0 .. (zin.size - zin.pos),
        nOut \in 0 .. (zout.size - zout.pos) :
       /\ zlib.out + nOut <= MaxOut
       /\ res = "error" => nIn = 0 /\ nOut = 0
       /\ (res = "ok" /\ cstream = "ready") => nIn + nOut >= 1
       /\ IF res = "error"
          THEN /\ zpc' = [zpc EXCEPT !.at = "returned", !.ret = FALSE]
               /\ zlib' = [zlib EXCEPT !.erred = TRUE, !.everErred = TRUE]
               /\ UNCHANGED <<offset, buffer, stream, zout, zin>>
          ELSE LET put == [pos |-> zout.pos + nOut, size |-> zout.size]
                   left == IF BufferFull(put) THEN 0 ELSE put.pos
               IN /\ buffer' = PutOut(buffer, zout.pos, nOut)
                  /\ stream' = IF BufferFull(put)
                               THEN serialize(stream, buffer', put.pos)
                               ELSE stream
                  /\ zout' = [zout EXCEPT !.pos = left]
                  /\ zin' = [zin EXCEPT !.pos = zin.pos + nIn]
                  /\ zlib' = [zlib EXCEPT !.out = zlib.out + nOut]
                  /\ IF zin.size > zin.pos + nIn
                     THEN UNCHANGED <<offset, zpc>>
                     ELSE /\ offset' = left
                          /\ zpc' = [zpc EXCEPT !.at = "returned", !.ret = TRUE]
  /\ UNCHANGED <<cstream, bufsize>>
  /\ UNCHANGED <<cov, inp, pc, layout, calls, fimage, mip, levels, width, count,
                 sums, wavbuf, reconst, outbuf, allocated, lvl, pos, ub, walk>>

\* One turn of the flush: ZSTD_endStream puts nOut bytes out; while its
\* result is above 0 the buffer is written and emptied and the call is
\* repeated; at 0 what is left is written, offset is reset and writeData
\* returns true.  The flush has no other return.
FlushTurn ==
  /\ zpc.at = "flush"
  /\ \E res \in EndResults, nOut \in 0 .. (zout.size - zout.pos) :
       /\ zlib.out + nOut <= MaxOut
       /\ res = "error" => nOut = 0
       /\ (res = "more" /\ cstream = "ready") => nOut >= 1
       /\ LET p == zout.pos + nOut
          IN /\ buffer' = PutOut(buffer, zout.pos, nOut)
             /\ zlib' = [zlib EXCEPT !.out = zlib.out + nOut,
                                     !.erred = zlib.erred \/ res = "error",
                                     !.everErred = zlib.everErred \/ res = "error"]
             /\ IF EndStreamAgain(res)
                THEN /\ stream' = serialize(stream, buffer', p)
                     /\ zout' = [zout EXCEPT !.pos = 0]
                     /\ UNCHANGED <<offset, zpc>>
                ELSE /\ stream' = IF p > 0 THEN serialize(stream, buffer', p)
                                  ELSE stream
                     /\ zout' = [zout EXCEPT !.pos = p]
                     /\ offset' = 0
                     /\ zpc' = [zpc EXCEPT !.at = "returned", !.ret = TRUE]
  /\ UNCHANGED <<cstream, bufsize, zin>>
  /\ UNCHANGED <<cov, inp, pc, layout, calls, fimage, mip, levels, width, count,
                 sums, wavbuf, reconst, outbuf, allocated, lvl, pos, ub, walk>>

ZstdInit ==
  /\ inp = [output |-> "zds"]
  /\ pc = "output"
  /\ layout = <<>>
  /\ calls = <<>>
  /\ levels = 0
  /\ width = 0
  /\ count = 0
  /\ sums = Empty
  /\ wavbuf = Empty
  /\ reconst = Empty
  /\ outbuf = Empty
  /\ allocated = {}
  /\ lvl = 0
  /\ pos = 0
  /\ ub = FALSE
  /\ walk = NoWalk
  /\ fimage = <<>>
  /\ mip = 0
  /\ NoHandler
  /\ NoCoverage

ZstdNext ==
  \/ WriteDataCall
  \/ CompressTurn
  \/ FlushTurn

ZstdSpec == ZstdInit /\ [][ZstdNext]_vars

\* ============================================================== claims
\* The offset in S (and in the byte buffer) of the slab of level l, level 0
\* being the finest, of an image of width w.
RECURSIVE LevelOffset(_, _)
LevelOffset(w, l) == IF l = 0 THEN 0 ELSE 4 * w * w + LevelOffset(w \div 2, l - 1)

IsPow2(w) == \E k \in 0 .. 30 : w = 2^k

Returned == pc \in {"done", "failed"}

\* C1 as stated: get_image_mips delivers the coarsest (1x1) level first and
\* the finest (WxW) level last: the n-th delivery is 2^(n-1) texels wide.
C1_CoarsestFirst ==
  \A n \in 1 .. Len(calls) : calls[n].w = 2^(n - 1)

\* C1 amended: get_image_mips delivers the levels in strict order from the
\* finest (WxW, level index 0) first to the coarsest (1x1) last, which is the
\* order in which the levels are stored in S: the n-th delivery is level
\* n - 1, W / 2^(n-1) texels wide, and starts at that level's offset in S.
C1_FinestFirst ==
  \A n \in 1 .. Len(calls) :
    /\ calls[n].level = n - 1
    /\ calls[n].w = width \div 2^(n - 1)
    /\ calls[n].ptr = LevelOffset(width, n - 1)
    /\ n > 1 => calls[n - 1].w > calls[n].w /\ calls[n - 1].ptr < calls[n].ptr

C1_Witness ==
  /\ pc = "done"
  /\ width = 4
  /\ Len(calls) = 3
  /\ calls[1].w = 4
  /\ calls[3].w = 1

\* C2: for an accepted width W = 2^k, get_image_mips makes exactly k + 1
\* deliveries, one for each level index l in 0..k; the one with index l is
\* W / 2^l wide and high and carries the bytes quantized from level l of S.
C2_OneCallPerLevel ==
  (pc = "done" /\ IsPow2(inp.img.w)) =>
    LET W == inp.img.w
        k == int_low_pow2(W)
    IN  /\ Len(calls) = k + 1
        /\ \A l \in 0 .. k :
             /\ Cardinality({n \in 1 .. Len(calls) : calls[n].level = l}) = 1
             /\ \A n \in 1 .. Len(calls) :
                  calls[n].level = l =>
                    /\ calls[n].w = W \div 2^l
                    /\ calls[n].h = W \div 2^l
                    /\ \E ubmode \in {"wrap", "sat"} :
                         calls[n].data =
                           EmitLevel(sums, LevelOffset(W, l),
                                     4 * (W \div 2^l) * (W \div 2^l),
                                     ~ArgLinear, ArgToNormal, ArgToYuv, ubmode)

C2_Witness ==
  /\ pc = "done"
  /\ inp.img.w = 4
  /\ inp.img.pat = "corner"
  /\ Len(calls) = 3

\* C3 as stated: decompose returns failure for every width that is not a
\* positive power of two (0 and 640 included) and only for those.
C3_NotPow2Rejected ==
  pc \notin {"main", "high_pass"} => ((pc = "failed") <=> ~IsPow2(inp.img.w))

\* C4 as stated: an image whose height differs from its width is rejected
\* with a failure result and never decomposed.
C4_NonSquareRejected ==
  (inp.img.h # inp.img.w /\ pc \notin {"main", "high_pass"}) =>
    (pc = "failed" /\ sums = Empty /\ wavbuf = Empty)

\* C5: when high_pass fails on a width that is not a power of two, the sink
\* has received no mip level and no buffer of the HighPass object exists.
C5_FailureLeavesNothing ==
  pc = "failed" =>
    /\ calls = <<>>
    /\ allocated = {}
    /\ sums = Empty /\ wavbuf = Empty /\ reconst = Empty /\ outbuf = Empty

C5_Witness ==
  /\ pc = "failed"
  /\ inp.img.w = 3
  /\ layout = <<3, 3>>

\* C6 as stated: every buffer the pipeline allocated has been released by
\* the time high_pass returns, on success as on failure.
C6_AllReleased ==
  Returned => allocated = {}

\* The floats of a pyramid of averages of width w: 4 per texel of every
\* level from w x w down to 1 x 1.
RECURSIVE PyramidFloats(_)
PyramidFloats(w) == IF w <= 1 THEN 4 ELSE 4 * w * w + PyramidFloats(w \div 2)

\* C7 as stated: for W = 2^k, 1 <= k <= 12, the floats decompose fills S
\* with number (4*W*W*4)/3, and the floats it writes to D number 4*W*W - 4.
C7_SizesAsStated ==
  (walk.phase = "done" /\ walk.levels >= 1) =>
    /\ walk.sfloats = PyramidFloats(walk.len)
    /\ walk.sfloats = walk.count
    /\ walk.dfloats = 4 * walk.len * walk.len - 4

\* C7 amended: for W = 2^k, 1 <= k <= 12, (4*W*W*4)/3 does not overflow 32
\* bits and is one more than the floats of the pyramid of averages that
\* decompose fills (4 per texel of every level); the floats written to D
\* number 4*W*W - 4.
C7_Sizes ==
  (walk.phase = "done" /\ walk.levels >= 1) =>
    /\ walk.len * walk.len < 2^28
    /\ walk.sfloats = PyramidFloats(walk.len)
    /\ walk.sfloats = walk.count - 1
    /\ walk.dfloats = 4 * walk.len * walk.len - 4
    /\ walk.dfloats = WavSize(walk.len)

C7_Witness ==
  /\ walk.phase = "done"
  /\ walk.len = 4096
  /\ walk.sfloats = 89478484

\* The float of channel c of texel (x, y) of level l of S.
SAt(l, x, y, c) ==
  sums[LevelOffset(width, l) + 4 * (y * (width \div 2^l) + x) + c]

\* Four times the mean of the 2x2 block of level l under texel (x, y) of level l + 1.
BlockSum(l, x, y, c) ==
  SAt(l, 2 * x, 2 * y, c) + SAt(l, 2 * x + 1, 2 * y, c)
    + SAt(l, 2 * x, 2 * y + 1, c) + SAt(l, 2 * x + 1, 2 * y + 1, c)

\* round-half-up(255 * v) for 0 <= v <= 1
RoundHalfUp255(v) == CHOOSE q \in 0 .. 255 : 2 * q * P - P <= 2 * v /\ 2 * v < 2 * q * P + P

AfterDecompose == pc = "reconstruct" /\ width >= 1

\* C8 as stated: right after a successful decompose every texel of every
\* level l + 1 (the top 1x1 level included) is, channel by channel, the mean
\* of the 2x2 block of level l under it.
C8_MeanEveryLevel ==
  AfterDecompose =>
    \A l \in 0 .. levels - 1 :
      \A x, y \in 0 .. (width \div 2^(l + 1)) - 1 : \A c \in 0 .. 3 :
        4 * SAt(l + 1, x, y, c) = BlockSum(l, x, y, c)

\* C8 amended: right after a successful decompose every texel of every level
\* l + 1 below the top is, channel by channel, the mean of the 2x2 block of
\* level l under it; of the top 1x1 level only alpha is that mean, and its
\* R, G, B are the mean rounded half up to a multiple of 1/255 (or 1, 0, 0 in
\* Normal mode).
C8_MeanBelowTop ==
  AfterDecompose =>
    \A l \in 0 .. levels - 1 :
      \A x, y \in 0 .. (width \div 2^(l + 1)) - 1 : \A c \in 0 .. 3 :
        IF l + 1 < levels \/ c = 3
        THEN 4 * SAt(l + 1, x, y, c) = BlockSum(l, x, y, c)
        ELSE IF ArgToNormal
        THEN SAt(l + 1, x, y, c) = (IF c = 0 THEN 127 * P ELSE 0)
        ELSE SAt(l + 1, x, y, c) = P * RoundHalfUp255(BlockSum(l, x, y, c) \div 4)

C8_Witness ==
  /\ AfterDecompose
  /\ levels = 2
  /\ inp.img.pat = "corner"
  /\ 4 * SAt(1, 1, 1, 1) = BlockSum(0, 1, 1, 1)
  /\ 4 * SAt(2, 0, 0, 1) # BlockSum(1, 0, 0, 1)

\* The loaded linear tile of the input image (no row is read past it).
TileAt(idx) == LoadTile(inp.img, inp.img.w, ~ArgLinear, ArgToNormal, 1, idx)

\* The mean of channel c over the size x size square of the tile at (x0, y0).
RECURSIVE QuadMean(_, _, _, _)
QuadMean(x0, y0, size, c) ==
  IF size <= 1 THEN TileAt(4 * (y0 * inp.img.w + x0) + c)
  ELSE LET h == size \div 2
       IN  (QuadMean(x0, y0, h, c) + QuadMean(x0 + h, y0, h, c)
              + QuadMean(x0, y0 + h, h, c) + QuadMean(x0 + h, y0 + h, h, c)) \div 4

ImageMean(c) == QuadMean(0, 0, inp.img.w, c)

Abs(v) == IF v < 0 THEN 0 - v ELSE v

\* 1e-6 of the value 1.0f of channel c
Tol(c) == UnitOf(ArgToNormal, c) \div 1000000

Reconstructed ==
  /\ pc \in {"get_image_mips", "done"}
  /\ width >= 1
  /\ ~ReadsPastImage

TopCalls == {n \in 1 .. Len(calls) : calls[n].w = 1}

TopAligned ==
  \A c \in 0 .. 3 :
    sums[count - 5 + c] =
      (IF c = 3 THEN ImageMean(3) ELSE P * RoundHalfUp255(ImageMean(c)))

\* C10 as stated: outside Normal mode decompose replaces R, G, B of the top
\* average v by round-half-up(255 * v) / 255, alpha untouched, and the 1x1
\* level is delivered with exactly those 8-bit values as its R, G, B bytes,
\* whatever tosrgb and toyuv are.
C10_TopBytesAnyFlags ==
  (pc \in {"reconstruct", "reconstruct_level", "get_image_mips", "done"}
     /\ width >= 1 /\ ~ReadsPastImage /\ ~ArgToNormal) =>
    /\ TopAligned
    /\ \A n \in TopCalls : \A c \in 0 .. 2 :
         calls[n].data[c] = RoundHalfUp255(ImageMean(c))

\* C10 amended: outside Normal mode decompose replaces R, G, B of the top
\* average v by round-half-up(255 * v) / 255, alpha untouched; when the
\* emitter runs with neither tosrgb nor toyuv, the R, G, B bytes delivered
\* for the 1x1 level are exactly those 8-bit values.
C10_TopBytesLinear ==
  (pc \in {"reconstruct", "reconstruct_level", "get_image_mips", "done"}
     /\ width >= 1 /\ ~ReadsPastImage /\ ~ArgToNormal) =>
    /\ TopAligned
    /\ (ArgLinear /\ ~ArgToYuv) =>
         \A n \in TopCalls : \A c \in 0 .. 2 :
           calls[n].data[c] = RoundHalfUp255(ImageMean(c))

C10_Witness ==
  /\ pc = "done"
  /\ ArgLinear /\ ~ArgToYuv /\ ~ArgToNormal
  /\ inp.img = [w |-> 4, h |-> 4, pat |-> "checker", c0 |-> 1, c1 |-> 2]
  /\ TopCalls = {3}
  /\ calls[3].data[0] = 128
  /\ 2 * ImageMean(0) = 255 * P

\* The delivery of the coarsest (1x1) level, when it has been made.
TopCallData == calls[levels + 1].data

TopDelivered == pc \in {"get_image_mips", "done"} /\ Len(calls) = levels + 1

\* C11 as stated: in Normal mode the 1x1 mip delivered to the sink is the
\* pixel (255, 128, 128, 255) for every input image.
C11_TopPixel255_128 ==
  (ArgToNormal /\ TopDelivered) =>
    TopCallData = (0 :> 255 @@ 1 :> 128 @@ 2 :> 128 @@ 3 :> 255)

\* C11 amended: in Normal mode decompose forces the top average to
\* (1, 0, 0, *) and the emitter scales (n + 1) by 127, not by 127.5, so the
\* 1x1 mip delivered to the sink is the pixel (254, 127, 127, 255) for every
\* accepted input image.
C11_TopPixel254_127 ==
  (ArgToNormal /\ TopDelivered) =>
    TopCallData = (0 :> 254 @@ 1 :> 127 @@ 2 :> 127 @@ 3 :> 255)

C11_Witness ==
  /\ ArgToNormal
  /\ pc = "done"
  /\ inp.img.w = 4
  /\ inp.img.pat = "checker"
  /\ inp.img.c0 = 1
  /\ inp.img.c1 = 3
  /\ Len(calls) = 3
  /\ calls[3].w = 1
  /\ calls[3].data[0] = 254

\* The run is "linear mode": no sRGB, no YUV, no tonormal.
PlainLinear == inp.linear /\ ~inp.normal /\ inp.yuv = 0

\* Every pixel of the input image has alpha 255.
AlphaOpaque ==
  \A x \in 0 .. inp.img.w - 1, y \in 0 .. inp.img.h - 1 : Pixel(inp.img, x, y, 3) = 255

\* C12: in linear mode with skip = 0 and an input of alpha 255, every R,G,B
\* byte of the level-0 mip delivered differs from the input byte of the same
\* texel by at most 1; and for the 4x4 one-texel checkerboard of 255 and 0
\* the 2x2 and the 1x1 mips are uniformly (128, 128, 128, 255).
C12_FinestWithinOne ==
  (pc = "done" /\ PlainLinear /\ ArgSkip = 0 /\ AlphaOpaque) =>
    /\ \A x \in 0 .. width - 1, y \in 0 .. width - 1, c \in 0 .. 2 :
         y < inp.img.h =>
           Abs(calls[1].data[4 * (y * width + x) + c] - Pixel(inp.img, x, y, c)) <= 1
    /\ (inp.img.w = 4 /\ inp.img.h = 4 /\ inp.img.pat = "checker"
          /\ inp.img.c0 = 1 /\ inp.img.c1 = 2) =>
         \A n \in 2 .. 3 : \A b \in DOMAIN calls[n].data :
           calls[n].data[b] = IF b % 4 = 3 THEN 255 ELSE 128

C12_Witness ==
  /\ pc = "done"
  /\ PlainLinear
  /\ ArgSkip = 0
  /\ AlphaOpaque
  /\ inp.img.w = 4
  /\ inp.img.h = 4
  /\ inp.img.pat = "checker"
  /\ inp.img.c0 = 1
  /\ inp.img.c1 = 4
  /\ Pixel(inp.img, 1, 0, 0) = 10
  /\ calls[1].data[4] = 11
  /\ calls[1].data[0] = 255

\* C13: every pixel of every mip level delivered by get_image_mips has the
\* alpha byte 255, in every emit mode and whatever the input alpha was.
C13_AlphaAlways255 ==
  \A n \in 1 .. Len(calls) : \A b \in DOMAIN calls[n].data :
    b % 4 = 3 => calls[n].data[b] = 255

C13_Witness ==
  /\ pc = "done"
  /\ inp.yuv = 1
  /\ inp.img.w = 2
  /\ inp.img.h = 2
  /\ inp.img.pat = "flat"
  /\ inp.img.c0 = 3
  /\ Pixel(inp.img, 0, 0, 3) = 0
  /\ Len(calls) = 2
  /\ calls[1].data[3] = 255
  /\ calls[2].data[3] = 255

\* reconstruct(unfiltered): reconstruct_level(i, unfiltered) for i = 0 ..
\* _levels in turn; the S it leaves behind.
RECURSIVE ReconstructLoop(_, _, _, _, _, _, _, _)
ReconstructLoop(S, D, R, cnt, wd, lv, i, unfiltered) ==
  IF i <= lv
  THEN LET r == reconstruct_level(S, D, R, cnt, wd, lv, i, unfiltered)
       IN  ReconstructLoop(r.S, D, r.R, cnt, wd, lv, i + 1, unfiltered)
  ELSE S

\* high_pass as a function of its arguments alone: the pyramid S that
\* get_image_mips quantizes, every row read being a row of the image.
HighPassSums(img, linear, to_normal, skip_mips) ==
  LET len == img.w
      b   == DecomposeBuffers(img, len, ~linear, to_normal, 1)
      cnt == CountOf(len)
  IN  ReconstructLoop(b.S, b.D, [idx \in 0 .. cnt - 2 |-> Uninit], cnt, len,
                      int_low_pow2(len), 0, skip_mips)

\* C14 as stated: what high_pass delivers is a function of the input bytes,
\* the dimensions, the flags and the skip count, so that two invocations on
\* the same input deliver the same sequence of (level, width, height,
\* bytes); a float out of the range of uint8_t is taken to convert the same
\* way in both invocations.
C14_SameInputSameOutput ==
  pc = "done" =>
    LET S == HighPassSums(inp.img, ArgLinear, ArgToNormal, ArgSkip)
    IN  \A n \in 1 .. Len(calls) :
          /\ calls[n].level = n - 1
          /\ calls[n].w = inp.img.w \div 2^(n - 1)
          /\ calls[n].h = inp.img.w \div 2^(n - 1)
          /\ \E ubmode \in {"wrap", "sat"} :
               calls[n].data =
                 EmitLevel(S, calls[n].ptr, 4 * calls[n].w * calls[n].w,
                           ~ArgLinear, ArgToNormal, ArgToYuv, ubmode)

\* decompose has returned and reconstruct has not run: S[0 .. 4*W*W) still
\* holds what the row loader wrote (for W > 1 the top average lies past it).
Loaded == pc = "reconstruct" /\ width >= 1

\* The float that the row loader stored for byte c of the texel (x, y).
LoadedAt(x, y, c) == sums[4 * (y * width + x) + c]

\* C15 as stated: in Normal mode the row loader maps each of R,G,B to
\* (byte - 127) / 127 (127 to 0, 255 to 128/127) and sets alpha to 1
\* whatever the input alpha byte is.
C15_NormalAlphaOne ==
  (Loaded /\ ArgToNormal) =>
    \A x \in 0 .. width - 1, y \in 0 .. width - 1 :
      y < inp.img.h =>
        /\ width > 1 =>
             \A c \in 0 .. 2 :
               LoadedAt(x, y, c)
                 = (Pixel(inp.img, x, y, c) - 127) * (UnitOf(TRUE, c) \div 127)
        /\ LoadedAt(x, y, 3) = UnitOf(TRUE, 3)

\* C15 amended: in Normal mode the row loader maps each of R,G,B to
\* (byte - 127) / 127 and, being instantiated with four bytes per pixel,
\* maps alpha to byte / 255 as in the other modes.
C15_NormalAlphaScaled ==
  (Loaded /\ ArgToNormal) =>
    \A x \in 0 .. width - 1, y \in 0 .. width - 1 :
      y < inp.img.h =>
        /\ width > 1 =>
             \A c \in 0 .. 2 :
               LoadedAt(x, y, c)
                 = (Pixel(inp.img, x, y, c) - 127) * (UnitOf(TRUE, c) \div 127)
        /\ LoadedAt(x, y, 3) = Pixel(inp.img, x, y, 3) * (UnitOf(TRUE, 3) \div 255)

C15_Witness ==
  /\ Loaded
  /\ ArgToNormal
  /\ inp.img.w = 2
  /\ inp.img.h = 2
  /\ inp.img.pat = "checker"
  /\ inp.img.c0 = 1
  /\ inp.img.c1 = 3
  /\ Pixel(inp.img, 1, 0, 0) = 127
  /\ LoadedAt(1, 0, 0) = 0
  /\ LoadedAt(0, 0, 0) = 128 * (UnitOf(TRUE, 0) \div 127)
  /\ Pixel(inp.img, 1, 0, 3) = 0
  /\ LoadedAt(1, 0, 3) = 0

\* reconstruct_level(L, skip) has just run: L is the target it composed.
LastTarget == IF pc = "reconstruct_level" THEN lvl - 1 ELSE levels

TargetComposed ==
  \/ pc = "reconstruct_level" /\ lvl >= 1
  \/ pc \in {"get_image_mips", "done"}

\* The coefficient C18 states for step i of target L, as the exponent s of
\* cf = 2^(-s): levsup = log2(W) - 1 - L - skip, cf = 2^(i - levsup) if
\* i < levsup and 1 otherwise.
StatedShift(i, L) ==
  LET levsup == int_low_pow2(width) - 1 - L - ArgSkip
  IN  IF i < levsup THEN levsup - i ELSE 0

\* The buffer R composed for target L with the stated coefficients, from
\* the seed and the details that are in place.
RECURSIVE StatedCompose(_, _, _)
StatedCompose(st, i, L) ==
  IF i < L THEN StatedCompose(ComposeLevel(st, wavbuf, i, StatedShift(i, L)), i + 1, L)
  ELSE st

\* C18: the R that reconstruct_level leaves for a target with L steps is
\* the one composed with cf = 2^(i - levsup) if i < levsup and 1 otherwise
\* at step i, levsup = log2(W) - 1 - L - skip; so 0 < cf <= 1, cf does
\* not decrease with i, a coarser target attenuates a step at least as much
\* as a finer one, and for skip >= 0 the finest target has cf = 1 throughout.
C18_CoefficientSchedule ==
  TargetComposed =>
    /\ reconst = StatedCompose([R |-> reconst, pr |-> count - 1 - 4,
                                pd |-> 4 * width * width - 4], 0, LastTarget).R
    /\ \A L \in 0 .. levels : \A i \in 0 .. L - 1 :
         /\ StatedShift(i, L) = CfShift(i, LevSup(levels, L, ArgSkip))
         /\ StatedShift(i, L) >= 0
         /\ StatedShift(i, L) <= 126
         /\ i + 1 < L => StatedShift(i + 1, L) <= StatedShift(i, L)
         /\ \A L2 \in 0 .. L : i < L2 => StatedShift(i, L2) >= StatedShift(i, L)
         /\ (ArgSkip >= 0 /\ L = levels) => StatedShift(i, L) = 0

C18_Witness ==
  /\ pc = "get_image_mips"
  /\ lvl = levels + 1
  /\ width = 4
  /\ inp.img.h = 4
  /\ inp.img.pat = "corner"
  /\ ArgSkip = 0 - 1
  /\ StatedShift(0, 1) = 1
  /\ StatedShift(0, 2) = 0
  /\ StatedShift(1, 2) = 0
  /\ \E idx \in DOMAIN wavbuf : idx >= 48 /\ wavbuf[idx] # 0

\* The 2x2 block m of row pair j of the loaded tile, channel k, as
\* decompose_rows reads it: texels a, b of the upper row and c, d of the lower.
TileBlock(j, m, k) ==
  LET rgb1 == 2 * (4 * width) * j
      rgb2 == rgb1 + 4 * width
      i    == 8 * m + k
  IN  [a |-> sums[rgb1 + i], b |-> sums[rgb1 + i + 4],
       c |-> sums[rgb2 + i], d |-> sums[rgb2 + i + 4]]

\* compose_rows with cf = 1 fed one average and one detail triple laid out
\* as decompose_rows writes them.
ComposeOf(r) ==
  compose_rows([n \in 0 .. 0 |-> r.sac], [t \in 0 .. 2 |-> Band(r, t)], 0, 0, 0, 0, 0)

Slab(L) ==
  { idx \in 0 .. count - 2 :
      idx >= PrAt(count, L) /\ idx < PrAt(count, L) + 4 * Shl1(L) * Shl1(L) }

\* S with everything but its top (1x1) average forgotten.
TopOnly(S) == [idx \in DOMAIN S |-> IF idx \in Slab(0) THEN S[idx] ELSE Uninit]

\* C20 as stated: the composition of a target L >= 1 reads the averages of
\* level L - 1 from the slab of S that the previous reconstruct_level wrote:
\* the averages it composed from are the floats of that slab.
C20_ContinuesFromSlab ==
  (TargetComposed /\ LastTarget >= 1) =>
    \A idx \in Slab(LastTarget - 1) : reconst[idx] = sums[idx]

\* C20 amended: reconstruct_level copies the target it composed into the
\* slab of S of that level, and every call starts over from the top (1x1)
\* average: of S it reads those four floats only, and it composes every
\* level below the target again in R with the target's own coefficients.
C20_RestartsFromTop ==
  TargetComposed =>
    LET L == LastTarget
        r == reconstruct_level(TopOnly(sums), wavbuf,
                               [idx \in 0 .. count - 2 |-> Uninit],
                               count, width, levels, L, ArgSkip)
    IN  /\ r.offs = PrAt(count, L)
        /\ \A idx \in Slab(L) : sums[idx] = reconst[idx] /\ sums[idx] = r.S[idx]
        /\ \A l \in 0 .. L : \A idx \in Slab(l) : reconst[idx] = r.R[idx]

C20_Witness ==
  /\ pc = "get_image_mips"
  /\ lvl = levels + 1
  /\ width = 4
  /\ inp.img.h = 4
  /\ inp.img.pat = "corner"
  /\ ArgSkip = 0 - 1
  /\ \A idx \in Slab(2) : sums[idx] = reconst[idx]
  /\ \E idx \in Slab(1) : sums[idx] # reconst[idx]

\* The five mip paths, highest precedence first, and the flag of each.
Precedence == <<"high_pass", "roughness", "coverage", "fill_holes", "plain">>

FlagSet(p) ==
  CASE p = "high_pass"  -> inp.highPassMips
    [] p = "roughness"  -> inp.input_normal_for_roughness
    [] p = "coverage"   -> inp.scaleCoverageChannels
    [] p = "fill_holes" -> inp.fillHoles
    [] p = "plain"      -> TRUE

\* The path of highest precedence whose flag is set.
StatedPath ==
  Precedence[CHOOSE n \in 1 .. 5 :
               FlagSet(Precedence[n]) /\ \A m \in 1 .. n - 1 : ~FlagSet(Precedence[m])]

\* The mip paths main is in or has been through.
ActivePaths ==
  CASE pc \in {"main", "high_pass", "reconstruct", "reconstruct_level",
               "get_image_mips", "done", "failed", "crashed"} -> {"high_pass"}
    [] pc \in {"roughness", "roughness_mips", "roughness_done"} -> {"roughness"}
    [] pc \in {"coverage", "coverage_mips", "coverage_done"} -> {"coverage"}
    [] pc \in {"fill_holes", "fill_holes_done"} -> {"fill_holes"}
    [] pc \in {"plain", "plain_done"} -> {"plain"}
    [] OTHER -> {}

\* The path that made the n-th delivery.
CallBy(n) == IF "by" \in DOMAIN calls[n] THEN calls[n].by ELSE "high_pass"

PastInput == pc \notin {"start", "exit_failure"}

\* C16 as stated: for every combination of flags exactly one of the five
\* mip paths is active, the one of highest precedence whose flag is set, and
\* every delivery to the sink is made by it.
C16_OnePathAnyFlags ==
  PastInput =>
    /\ ActivePaths = {StatedPath}
    /\ \A n \in 1 .. Len(calls) : CallBy(n) = StatedPath

\* C16 amended: when the format is neither BC6 nor an RGBM one and the
\* input is a regular image that loads, exactly one of the five mip paths is
\* active, the one of highest precedence whose flag is set (high-pass >
\* roughness > coverage > hole-fill > plain), and every delivery is made by
\* it; with a BC6 or RGBM format or a DDS input none of the five is active,
\* whatever their flags.
C16_OnePathRegularImage ==
  /\ PastInput =>
       IF inp.format = "other" /\ ~inp.dds
       THEN /\ ActivePaths = {StatedPath}
            /\ \A n \in 1 .. Len(calls) : CallBy(n) = StatedPath
       ELSE /\ ActivePaths = {}
            /\ \A n \in 1 .. Len(calls) : CallBy(n) = "dds"
  /\ pc = "exit_failure" => calls = <<>>

C16_Witness ==
  /\ pc = "roughness_done"
  /\ ~inp.highPassMips
  /\ inp.input_normal_for_roughness
  /\ inp.scaleCoverageChannels
  /\ inp.fillHoles
  /\ inp.img.w = 4
  /\ inp.img.h = 4
  /\ Len(calls) = 3
  /\ \A n \in 1 .. 3 : CallBy(n) = "roughness"

\* C17: the roughness and the coverage path each deliver level 0, the
\* full-size image, first and then levels 1, 2, ... in increasing order,
\* one per successful buildNextMipmap (each half the size of the one
\* before), and stop after the 1x1 level.
C17_FinestFirstThenUp ==
  pc \in {"roughness_mips", "roughness_done", "coverage_mips", "coverage_done"} =>
    /\ Len(calls) >= 1
    /\ mip = Len(calls)
    /\ calls[1].w = inp.img.w /\ calls[1].h = inp.img.h
    /\ fimage = <<calls[Len(calls)].w, calls[Len(calls)].h>>
    /\ \A n \in 1 .. Len(calls) :
         /\ calls[n].level = n - 1
         /\ n > 1 => /\ calls[n].w = HalfExtent(calls[n - 1].w)
                     /\ calls[n].h = HalfExtent(calls[n - 1].h)
                     /\ calls[n - 1].w * calls[n - 1].h > 1
    /\ pc \in {"roughness_done", "coverage_done"} =>
         calls[Len(calls)].w = 1 /\ calls[Len(calls)].h = 1

C17_Witness ==
  /\ pc = "coverage_done"
  /\ inp.img.w = 4
  /\ inp.img.h = 2
  /\ Len(calls) = 3
  /\ calls[1].level = 0 /\ calls[1].w = 4 /\ calls[1].h = 2
  /\ calls[2].level = 1 /\ calls[2].w = 2 /\ calls[2].h = 1
  /\ calls[3].level = 2 /\ calls[3].w = 1 /\ calls[3].h = 1

\* A step of reconstruct leaves D, the 1x1 slab of S and every float of S
\* outside the slab of the target level (lvl) as they were.
ReconstructKeeps ==
  pc \in {"reconstruct", "reconstruct_level"} =>
    /\ wavbuf' = wavbuf
    /\ DOMAIN sums' = DOMAIN sums
    /\ \A idx \in DOMAIN sums :
         (idx \in Slab(0) \/ pc = "reconstruct" \/ idx \notin Slab(lvl)) =>
           sums'[idx] = sums[idx]

\* C21: reconstruct never modifies D and never changes the top (1x1)
\* average in S, and reconstruct_level(L) writes only the slab of S of its
\* own target level L.
C21_ReconstructFrame == [][ReconstructKeeps]_vars

\* reconstruct has run to its end on a 4x4 image with details, and the
\* finest slab of S is no longer what decompose loaded.
C21_Witness ==
  /\ pc = "get_image_mips"
  /\ lvl = levels + 1
  /\ width = 4
  /\ inp.img.h = 4
  /\ inp.img.pat = "corner"
  /\ ArgSkip = 0 - 1
  /\ \E idx \in DOMAIN wavbuf : wavbuf[idx] # 0
  /\ \E idx \in Slab(1) : sums[idx] # reconst[idx]
  /\ \A idx \in Slab(0) : sums[idx] = reconst[idx]

\* The compressor's output so far, in order.
CompressorOutput == Produced(1, zlib.out)

\* What the claim states of the handler, in a state of the handler.
BufferedInOrder ==
  /\ zpc.at = "returned" =>
       /\ 0 <= offset /\ offset < bufsize
       /\ stream \o SubSeq(buffer, 1, offset) = CompressorOutput
  /\ (~zpc.flushed /\ bufsize > 0) => Len(stream) % bufsize = 0
  /\ (zpc.at = "returned" /\ zpc.flushed) =>
       /\ offset = 0
       /\ stream = CompressorOutput

C26_ErrorsReturnFalse ==
  zpc.at = "returned" =>
    /\ zlib.erred => zpc.ret = FALSE
    /\ zlib.initFailed => zpc.ret = FALSE

\* C23 as stated: while level i is decomposed the statistics go into
\* _info[i] only, at indices inside the bounds of median and sqdiff, and
\* no float of another level's record is written.
C23_StatsInsideRecord ==
  walk.phase = "rows" =>
    \A s \in walk.stat :
      /\ s[2] < InfoLen
      /\ InfoRecord(InfoFloat(walk.current, s[1], s[2])) = walk.i

\* 0.5f + 255 * v, given as the fraction f, has 0 <= v <= 1.
ValueInUnit(f) == f[1] >= f[2] \div 2 /\ f[1] <= 255 * f[2] + f[2] \div 2

\* C24 as stated: every value get_image_mips converts to a byte, of every
\* level it has delivered, has 0 <= v <= 1, so that 0.5 + 255 * v is in
\* [0.5, 255.5] and inside the range of an 8-bit value, in every emit mode.
C24_EmittedValuesInUnit ==
  (pc \in {"get_image_mips", "done"} /\ ~ReadsPastImage) =>
    \A n \in 1 .. Len(calls) : \A k \in 0 .. calls[n].w * calls[n].w - 1 :
      LET f == EmitFractions(sums, calls[n].ptr + 4 * k, ~ArgLinear,
                             ArgToNormal, ArgToYuv, 4 * k)
      IN  \A c \in 1 .. 3 : ValueInUnit(f[c]) /\ ByteInRange(f[c][1], f[c][2])

\* C25: for W = 2^k, 0 <= k <= MaxSizeLevels, and every skip, every index
\* that decompose, reconstruct and get_image_mips read or write in S, D,
\* the gray workspace, R and the byte output lies inside what was
\* allocated for that buffer: (4*W*W*4)/3 floats of S, W*W bytes of gray,
\* 4*W*W - 4 floats of D, |S| - 1 floats of R, |S| bytes of output.
C25_IndicesInsideBuffers ==
  /\ walk.phase # "off" =>
       \A a \in walk.acc :
         /\ a[1] \in Buffers
         /\ 0 <= a[2] /\ a[2] <= a[3]
         /\ a[3] < Allocated(a[1], walk.len)
  /\ walk.phase # "off" =>
       /\ Allocated("S", walk.len) = (4 * walk.len * walk.len * 4) \div 3
       /\ Allocated("gray", walk.len) = walk.len * walk.len
       /\ Allocated("D", walk.len) = 4 * walk.len * walk.len - 4
       /\ Allocated("R", walk.len) = Allocated("S", walk.len) - 1
       /\ Allocated("out", walk.len) = Allocated("S", walk.len)

\* The walk of the 4096-wide image with skip -1 has returned: the last
\* level emitted ended at the last byte but one of the output buffer.
C25_Witness ==
  /\ walk.phase = "returned"
  /\ walk.len = 4096
  /\ walk.unfiltered = 0 - 1
  /\ walk.level = 13
  /\ walk.pr = 0
  /\ walk.pout = Allocated("out", walk.len) - 1

\* C27: in the coverage path coverage0[k] is the coverage of the unscaled
\* level 0 for every requested channel k (and is not computed for the
\* others), level 0 is delivered unscaled, every later mip is delivered
\* with each requested channel scaled exactly once and the other channels
\* not scaled, and fimage, from which the next mip is box-filtered, stays
\* unscaled: the scalings never compound.
C27_CoverageFrame ==
  pc \in {"coverage_mips", "coverage_done"} =>
    /\ cov.channels # {}
    /\ \A k \in Channels :
         cov.coverage0[k] = IF k \in cov.channels THEN <<0, 0>> ELSE <<>>
    /\ Len(cov.sent) = Len(calls)
    /\ cov.sent[1].scaled = Unscaled
    /\ \A n \in 2 .. Len(cov.sent) : \A k \in Channels :
         cov.sent[n].scaled[k] = IF k \in cov.channels THEN 1 ELSE 0
    /\ cov.fimage = Unscaled

\* A 4x4 image with coverage asked for channels 0 and 3: three levels
\* delivered, the last two scaled.
C27_Witness ==
  /\ pc = "coverage_done"
  /\ cov.channels = {0, 3}
  /\ Len(calls) = 3
  /\ calls[3].level = 2
  /\ cov.sent[3].scaled[3] = 1
  /\ cov.sent[3].scaled[1] = 0

====
